---- MODULE Spec2Model ----
(***************************************************************************)
(* PathFinder: the decision-support core of the frontend.                  *)
(*                                                                         *)
(*   lib/data-transform.ts   validateAnalysisResult, validateDecisionInput *)
(*   lib/utils.ts            calculateConfidence, validateDecisionInput    *)
(*   components/decision-results.tsx, decision-form.tsx                    *)
(*   app/page.tsx (Home, HistoryPage), components/decision-history.tsx     *)
(*   app/api/analyze-decision, save-decision, decisions, decisions/[id]    *)
(*   components/ui/confirmation-dialog.tsx, contexts/auth-context.tsx      *)
(*                                                                         *)
(* The library functions are pure functions over untyped JavaScript        *)
(* values, so the model carries a small JavaScript value layer (typeof,    *)
(* ToBoolean, String(), Math.min/max with NaN and the infinities) and      *)
(* translates each function statement by statement on top of it.  Each     *)
(* function has its own specification: Init draws the argument, the        *)
(* action applies the function and stores its outcome (a returned value    *)
(* or a thrown error).  Each component and route handler has its own       *)
(* specification too: a handler that awaits is one action per stretch      *)
(* between two awaits, and the party it awaits is the environment.         *)
(***************************************************************************)
EXTENDS Integers, Sequences, FiniteSets, TLC

VARIABLES
    vaInput,    \* argument of validateAnalysisResult (backendData)
    vaOutput,   \* its outcome, or Pending before the call
    vaAgain,    \* the outcome of a second call, on the result of the first
    drOutput,   \* the confidence DecisionResults computes, or Pending
    ccInput,    \* argument of calculateConfidence (scores)
    ccOutput,   \* its outcome, or Pending before the call
    vdInput,    \* argument of validateDecisionInput (decision)
    vdOutput,   \* outcome of lib/data-transform.ts's validateDecisionInput
    vuOutput,   \* outcome of lib/utils.ts's validateDecisionInput
    user,             \* useAuth().user: null or the signed-in user
    step,             \* DecisionForm: step
    formData,         \* DecisionForm: formData
    isLoading,        \* Home: isLoading
    currentDecision,  \* Home: currentDecision
    analysisResult,   \* Home: analysisResult
    toastShown,       \* Home: the last toast, or null
    pc,               \* where the analysis request of Home stands
    lastCall,         \* how the last call of handleAnalyzeDecision began
    apiRequest,       \* the request Home sent to /api/analyze-decision
    apiResponse,      \* the route's answer to it
    backendRequest,   \* the request the route sent to the backend
    backendResponse,  \* the backend's answer to it (NoMessage: none so far)
    handler,    \* the route handler a request was dispatched to
    incoming,   \* that request: its Authorization header, body and params.id
    outgoing,   \* the fetch the handler sent to the backend, if any
    fetched,    \* how that fetch settled
    answered,   \* the NextResponse the handler returned
    decisions,     \* HistoryPage, DecisionHistory: decisions
    loading,       \* HistoryPage, DecisionHistory: loading
    deletingId,    \* HistoryPage: deletingId
    deletions,     \* the last call of deleteDecision, or of handleDelete, per decision
    historyToast,  \* HistoryPage: the last toast, or null
    fetching,      \* DecisionHistory: the calls of fetchDecisions under way
    persisted,     \* the ids of the decisions the backend holds
    open,          \* ConfirmationDialog: the open prop, held by the parent
    loadingProp,   \* ConfirmationDialog: the loading prop
    isProcessing,  \* ConfirmationDialog: isProcessing
    confirming,    \* ConfirmationDialog: handleConfirm awaits onConfirm()
    dialogLog,     \* ConfirmationDialog: what the calls of its handlers did
    authLoading,   \* AuthProvider: loading
    session,       \* the user of the auth client's session, or null
    lookup,        \* AuthProvider: where initializeAuth stands
    looked,        \* the user getCurrentUser() obtained
    authEvents     \* the session users of the auth state changes delivered

normalizerVars == <<vaInput, vaOutput, vaAgain, drOutput>>
estimatorVars == <<ccInput, ccOutput>>
validatorVars == <<vdInput, vdOutput, vuOutput>>
pageVars ==
    <<user, step, formData, isLoading, currentDecision, analysisResult,
      toastShown, pc, lastCall, apiRequest, apiResponse, backendRequest,
      backendResponse>>

routeVars == <<handler, incoming, outgoing, fetched, answered>>
historyVars ==
    <<decisions, loading, deletingId, deletions, historyToast, fetching,
      persisted>>
dialogVars == <<open, loadingProp, isProcessing, confirming, dialogLog>>
authVars == <<authLoading, session, lookup, looked, authEvents>>
appVars == <<routeVars, historyVars, dialogVars, authVars>>

vars == <<normalizerVars, estimatorVars, validatorVars, pageVars, appVars>>

(***************************************************************************)
(* JavaScript values.  A value is a record tagged with its kind; a number  *)
(* is a finite integer-valued double, NaN, Infinity or -Infinity.  An      *)
(* object is a function from its own keys to values, an array a sequence.  *)
(* A string is written Str("abc") where the code only converts, compares   *)
(* or tests it for emptiness, and Text(<<"a", "b", "c">>), by its          *)
(* characters, where the code trims it or reads its length.                *)
(***************************************************************************)
Undef == [t |-> "undefined"]
Null == [t |-> "null"]
Bool(b) == [t |-> "boolean", b |-> b]
Num(i) == [t |-> "number", k |-> "fin", n |-> i]
NaN == [t |-> "number", k |-> "nan", n |-> 0]
PosInf == [t |-> "number", k |-> "inf", n |-> 0]
NegInf == [t |-> "number", k |-> "ninf", n |-> 0]
Str(s) == [t |-> "string", s |-> s]
Arr(a) == [t |-> "array", a |-> a]
Obj(o) == [t |-> "object", o |-> o]

\* An object literal: the keys whose value is undefined are left out.
ObjLit(o) == Obj([key \in {q \in DOMAIN o : o[q] # Undef} |-> o[key]])

\* Outcome of a call: a returned value or a thrown error.
Pending == [kind |-> "pending"]
Return(v) == [kind |-> "return", value |-> v]
Throw(m) == [kind |-> "throw", message |-> m]

\* No HTTP message in flight
NoMessage == [kind |-> "none"]

\* The values the variables of a component keep in a specification that
\* does not exercise the component.
NormalizerIdle ==
    vaInput = Undef /\ vaOutput = Pending /\ vaAgain = Pending /\ drOutput = Pending

EstimatorIdle == ccInput = Undef /\ ccOutput = Pending

ValidatorIdle == vdInput = Undef /\ vdOutput = Pending /\ vuOutput = Pending

PageIdle ==
    /\ user = Null
    /\ step = 0
    /\ formData = Null
    /\ isLoading = FALSE
    /\ currentDecision = Null
    /\ analysisResult = Null
    /\ toastShown = Null
    /\ pc = "idle"
    /\ lastCall = "none"
    /\ apiRequest = NoMessage
    /\ apiResponse = NoMessage
    /\ backendRequest = NoMessage
    /\ backendResponse = NoMessage

RoutesIdle ==
    /\ handler = "none"
    /\ incoming = NoMessage
    /\ outgoing = NoMessage
    /\ fetched = NoMessage
    /\ answered = NoMessage

HistoryIdle ==
    /\ decisions = Arr(<<>>)
    /\ loading = FALSE
    /\ deletingId = Null
    /\ deletions = <<>>
    /\ historyToast = Null
    /\ fetching = 0
    /\ persisted = {}

DialogIdle ==
    /\ open = FALSE
    /\ loadingProp = FALSE
    /\ isProcessing = FALSE
    /\ confirming = FALSE
    /\ dialogLog = <<>>

AuthIdle ==
    /\ authLoading = FALSE
    /\ session = Null
    /\ lookup = "resolved"
    /\ looked = Null
    /\ authEvents = <<>>

AppIdle == RoutesIdle /\ HistoryIdle /\ DialogIdle /\ AuthIdle

\* typeof v
TypeOf(v) ==
    IF v.t \in {"null", "array", "object"} THEN "object" ELSE v.t

\* Array.isArray(v)
IsArray(v) == v.t = "array"

\* isNaN(v) for a value that is a number
IsNaN(v) == v.t = "number" /\ v.k = "nan"

\* ToBoolean(v): the truthiness used by !, &&, || and ?:
ToBoolean(v) ==
    CASE v.t = "undefined" -> FALSE
      [] v.t = "null" -> FALSE
      [] v.t = "boolean" -> v.b
      [] v.t = "number" -> ~(v.k = "nan" \/ (v.k = "fin" /\ v.n = 0))
      [] v.t = "string" -> IF "c" \in DOMAIN v THEN Len(v.c) > 0 ELSE v.s # ""
      [] OTHER -> TRUE

\* a || b
OrElse(a, b) == IF ToBoolean(a) THEN a ELSE b

\* v[key] on a value that is neither null nor undefined: own keys of an
\* object, undefined for everything else the functions read.
Get(v, key) ==
    IF v.t = "object" /\ key \in DOMAIN v.o THEN v.o[key] ELSE Undef

\* v === null || v === undefined: where an optional chain v?.x stops
Nullish(v) == v.t \in {"undefined", "null"}

\* v?.key
OptGet(v, key) == IF Nullish(v) THEN Undef ELSE Get(v, key)

\* a <= b on numbers that are not NaN
NumLe(a, b) ==
    \/ a.k = "ninf"
    \/ b.k = "inf"
    \/ (a.k = "fin" /\ b.k = "fin" /\ a.n <= b.n)

\* Math.min(a, b) and Math.max(a, b) on numbers
MathMin(a, b) ==
    IF IsNaN(a) \/ IsNaN(b) THEN NaN ELSE IF NumLe(a, b) THEN a ELSE b

MathMax(a, b) ==
    IF IsNaN(a) \/ IsNaN(b) THEN NaN ELSE IF NumLe(a, b) THEN b ELSE a

\* Number -> string, for integer-valued doubles
Digits == <<"0", "1", "2", "3", "4", "5", "6", "7", "8", "9">>

RECURSIVE NatToString(_)
NatToString(i) ==
    IF i < 10 THEN Digits[i + 1]
    ELSE NatToString(i \div 10) \o Digits[(i % 10) + 1]

NumberToString(v) ==
    CASE v.k = "nan" -> "NaN"
      [] v.k = "inf" -> "Infinity"
      [] v.k = "ninf" -> "-Infinity"
      [] OTHER -> IF v.n < 0 THEN "-" \o NatToString(-v.n) ELSE NatToString(v.n)

\* String(v): the text of v (a TLA+ string), as String() and
\* Array.prototype.join produce it.
RECURSIVE TextOf(_)
RECURSIVE JoinFrom(_, _)
JoinFrom(a, i) ==
    LET piece == IF a[i].t \in {"undefined", "null"} THEN "" ELSE TextOf(a[i])
    IN  IF i > Len(a) THEN ""
        ELSE IF i = Len(a) THEN piece
        ELSE piece \o "," \o JoinFrom(a, i + 1)

TextOf(v) ==
    CASE v.t = "undefined" -> "undefined"
      [] v.t = "null" -> "null"
      [] v.t = "boolean" -> IF v.b THEN "true" ELSE "false"
      [] v.t = "number" -> NumberToString(v)
      [] v.t = "string" -> v.s
      [] v.t = "array" -> IF Len(v.a) = 0 THEN "" ELSE JoinFrom(v.a, 1)
      [] OTHER -> "[object Object]"

\* String(v) as a value
String(v) == Str(TextOf(v))

\* a.map(String)
MapString(a) == [i \in 1..Len(a) |-> String(a[i])]

(***************************************************************************)
(* validateAnalysisResult (lib/data-transform.ts)                          *)
(***************************************************************************)

\* Math.max(0, Math.min(100, x))
Clamp0To100(x) == MathMax(Num(0), MathMin(Num(100), x))

\* typeof x === 'number' ? Math.max(0, Math.min(100, x)) : fallback
ClampOrDefault(x, fallback) ==
    IF TypeOf(x) = "number" THEN Clamp0To100(x) ELSE Num(fallback)

\* Array.isArray(x) ? x.map(String) : fallback
StringsOrDefault(x, fallback) ==
    IF IsArray(x) THEN Arr(MapString(x.a)) ELSE Arr(fallback)

\* score && typeof score === 'object'
IsScoreObject(score) == ToBoolean(score) /\ TypeOf(score) = "object"

\* The OptionScore pushed for one element of backendData.scores
NormalizeScore(score) ==
    Obj([option |-> String(OrElse(Get(score, "option"), Str("Unknown Option"))),
         overall_score |-> ClampOrDefault(Get(score, "overall_score"), 50),
         priority_scores |->
             IF ToBoolean(Get(score, "priority_scores"))
                /\ TypeOf(Get(score, "priority_scores")) = "object"
             THEN Get(score, "priority_scores") ELSE Obj(<<>>),
         strengths |-> StringsOrDefault(Get(score, "strengths"), <<>>),
         weaknesses |-> StringsOrDefault(Get(score, "weaknesses"), <<>>),
         risks |-> StringsOrDefault(Get(score, "risks"), <<>>),
         opportunities |-> StringsOrDefault(Get(score, "opportunities"), <<>>)])

\* The placeholder pushed when no score was collected
DefaultScore ==
    Obj([option |-> Str("Default Option"),
         overall_score |-> Num(50),
         priority_scores |-> Obj(<<>>),
         strengths |-> Arr(<<Str("Analysis completed")>>),
         weaknesses |-> Arr(<<Str("Limited information")>>),
         risks |-> Arr(<<Str("Standard risks apply")>>),
         opportunities |-> Arr(<<Str("Potential for success")>>)])

\* CollectScores with unshift in place of push: the entries end up reversed
RECURSIVE CollectScoresUnshift(_, _, _)
CollectScoresUnshift(src, i, acc) ==
    IF i > Len(src) THEN acc
    ELSE CollectScoresUnshift(src, i + 1,
             IF IsScoreObject(src[i])
             THEN <<NormalizeScore(src[i])>> \o acc ELSE acc)

\* The for..of loop over backendData.scores, from element i on, pushing
\* onto acc.
RECURSIVE CollectScores(_, _, _)
CollectScores(src, i, acc) ==
    IF i > Len(src) THEN acc
    ELSE CollectScores(src, i + 1,
             IF IsScoreObject(src[i])
             THEN Append(acc, NormalizeScore(src[i])) ELSE acc)

\* BuildScores without the empty check: no placeholder is pushed
BuildScoresNoPlaceholder(backendData) ==
    IF IsArray(Get(backendData, "scores"))
    THEN CollectScores(Get(backendData, "scores").a, 1, <<>>)
    ELSE <<>>

\* The local `scores` once both the loop and the empty check have run
BuildScores(backendData) ==
    LET collected ==
            IF IsArray(Get(backendData, "scores"))
            THEN CollectScores(Get(backendData, "scores").a, 1, <<>>)
            ELSE <<>>
    IN  IF Len(collected) = 0 THEN <<DefaultScore>> ELSE collected

\* scores[0]?.option
FirstOption(scoreSeq) ==
    IF Len(scoreSeq) = 0 THEN Undef ELSE Get(scoreSeq[1], "option")

\* String(backendData.recommended_option || scores[0]?.option || 'Unknown')
RecommendedOption(backendData, scoreSeq) ==
    String(OrElse(OrElse(Get(backendData, "recommended_option"),
                         FirstOption(scoreSeq)),
                  Str("Unknown")))

\* NotAnObject without the typeof test: only falsy payloads are refused
NotAnObjectFalsyOnly(backendData) == ~ToBoolean(backendData)

\* !backendData || typeof backendData !== 'object'
NotAnObject(backendData) ==
    ~ToBoolean(backendData) \/ TypeOf(backendData) # "object"

validateAnalysisResult(backendData) ==
    IF NotAnObject(backendData)
    THEN Throw("Invalid analysis result data: expected object")
    ELSE LET scoreSeq == BuildScores(backendData)
         IN  Return(Obj(
               [decision_id |->
                    IF ToBoolean(Get(backendData, "decision_id"))
                    THEN String(Get(backendData, "decision_id")) ELSE Undef,
                scores |-> Arr(scoreSeq),
                summary |->
                    String(OrElse(Get(backendData, "summary"),
                                  Str("Analysis completed successfully"))),
                reasoning |->
                    String(OrElse(Get(backendData, "reasoning"),
                        Str("The decision was analyzed based on the provided priorities and context."))),
                confidence |-> ClampOrDefault(Get(backendData, "confidence"), 70),
                recommended_option |-> RecommendedOption(backendData, scoreSeq),
                key_insights |->
                    StringsOrDefault(Get(backendData, "key_insights"),
                        <<Str("Consider both short-term and long-term implications")>>),
                next_steps |->
                    StringsOrDefault(Get(backendData, "next_steps"),
                        <<Str("Review the analysis carefully before deciding")>>),
                comparative_analysis |->
                    String(OrElse(Get(backendData, "comparative_analysis"),
                        Str("Further comparison may be needed between options.")))]))

(***************************************************************************)
(* Arguments the normalizer is applied to.                                 *)
(***************************************************************************)
MaxScores == 2      \* longest backendData.scores array drawn

\* All sequences over S of length at most n
SeqsUpTo(S, n) == UNION {[1..m -> S] : m \in 0..n}

\* values of score.option and score.overall_score
OptionValues == {Undef, Str(""), Str("A"), Str("B")}
OverallValues == {Undef, Str("80"), Num(-5), Num(72), Num(150), NaN}

\* An element with every field of an OptionScore, some of the wrong type
RichScore ==
    Obj([option |-> Num(7),
         overall_score |-> Num(100),
         priority_scores |-> Obj([Cost |-> Num(80)]),
         strengths |-> Arr(<<Str("cheap"), Num(1), Null>>),
         weaknesses |-> Str("slow"),
         risks |-> Arr(<<>>),
         opportunities |-> Arr(<<Bool(TRUE), Arr(<<Num(1), Num(2)>>)>>)])

ScoreObjects ==
    {ObjLit([option |-> o, overall_score |-> s]) :
        o \in OptionValues, s \in OverallValues}
    \cup {RichScore,
          ObjLit([option |-> Str("A"), overall_score |-> PosInf]),
          ObjLit([option |-> Str("B"), overall_score |-> NegInf])}

\* elements of backendData.scores: objects, and values that are skipped
ScoreElements == ScoreObjects \cup {Null, Str("x"), Num(3)}

ScoresValues ==
    {Arr(a) : a \in SeqsUpTo(ScoreElements, MaxScores)}
        \cup {Undef, Null, Str("x"), Obj(<<>>)}

FewScoresValues ==
    {Undef, Arr(<<>>),
     Arr(<<ObjLit([option |-> Str("A"), overall_score |-> Num(72)])>>),
     Arr(<<ObjLit([option |-> Str("A"), overall_score |-> Num(72)]),
           ObjLit([option |-> Str("B"), overall_score |-> Num(150)])>>)}

RecommendedValues == {Undef, Str(""), Str("A"), Str("Z"), Num(7)}
FewRecommendedValues == {Undef, Str("A"), Str("Z")}
ConfidenceValues == {Undef, Null, Str("90"), Num(-5), Num(85), Num(150), NaN, PosInf}

\* payloads whose narrative fields are present, absent or of the wrong type
NarrativePayloads ==
    {ObjLit([decision_id |-> d, summary |-> s, reasoning |-> s,
             comparative_analysis |-> s, key_insights |-> k, next_steps |-> k]) :
        d \in {Undef, Str("d1"), Num(42)},
        s \in {Undef, Str(""), Str("S"), Num(0)},
        k \in {Undef, Str("k"), Arr(<<Str("i"), Num(1), Null>>)}}

\* every scores value against a few recommendations, and a few scores
\* values against every recommendation and confidence
ScoresPayloads ==
    {ObjLit([scores |-> s, recommended_option |-> r]) :
        s \in ScoresValues, r \in FewRecommendedValues}

ConfidencePayloads ==
    {ObjLit([scores |-> s, recommended_option |-> r, confidence |-> c]) :
        s \in FewScoresValues, r \in RecommendedValues, c \in ConfidenceValues}

ObjectPayloads ==
    ScoresPayloads \cup (ConfidencePayloads \cup NarrativePayloads)

NonObjectPayloads ==
    {Undef, Null, Bool(TRUE), Bool(FALSE), Num(0), Num(5), NaN, Str(""), Str("x")}

\* payloads with an array where a text is expected: String([]) is ''
ArrayTextPayloads ==
    {ObjLit([summary |-> Arr(<<>>)]),
     ObjLit([recommended_option |-> Arr(<<>>)]),
     ObjLit([scores |-> Arr(<<ObjLit([option |-> Arr(<<>>)])>>)]),
     ObjLit([summary |-> Arr(<<Str("S")>>), recommended_option |-> Arr(<<Str("A")>>),
             scores |-> Arr(<<ObjLit([option |-> Arr(<<Str("A")>>)])>>)])}

NormalizerInputs ==
    {Arr(<<>>), Arr(<<Num(1)>>)}
        \cup (ArrayTextPayloads \cup (NonObjectPayloads \cup ObjectPayloads))

(***************************************************************************)
(* calculateConfidence (lib/utils.ts)                                      *)
(***************************************************************************)

\* a - b on numbers
Minus(a, b) ==
    CASE IsNaN(a) \/ IsNaN(b) -> NaN
      [] a.k = "fin" /\ b.k = "fin" -> Num(a.n - b.n)
      [] a.k = b.k -> NaN
      [] a.k = "inf" \/ b.k = "ninf" -> PosInf
      [] OTHER -> NegInf

\* scores.filter(score => typeof score === 'number' && !isNaN(score))
IsValidScore(score) == TypeOf(score) = "number" /\ ~IsNaN(score)

\* .map(score => Math.max(0, score))
NonNegative(a) == [i \in 1..Len(a) |-> MathMax(Num(0), a[i])]

\* Math.max(...a) and Math.min(...a)
RECURSIVE MaxFrom(_, _, _)
MaxFrom(a, i, acc) ==
    IF i > Len(a) THEN acc ELSE MaxFrom(a, i + 1, MathMax(acc, a[i]))

RECURSIVE MinFrom(_, _, _)
MinFrom(a, i, acc) ==
    IF i > Len(a) THEN acc ELSE MinFrom(a, i + 1, MathMin(acc, a[i]))

MathMaxOf(a) == MaxFrom(a, 1, NegInf)
MathMinOf(a) == MinFrom(a, 1, PosInf)

\* RoundTenths with Math.floor in place of Math.round
RoundTenthsDown(c) == c \div 10

\* Math.round(c / 10) for an integer c: the nearest integer, halves upwards
RoundTenths(c) == (c + 5) \div 10

\* Math.round(Math.min(30 + (range / 100) * 70, 95)).  A finite range is an
\* integer, so (range / 100) * 70 is a whole number of tenths and the
\* arithmetic is carried out on tenths.
ConfidenceOfRange(range) ==
    CASE range.k = "nan" -> NaN
      [] range.k = "inf" -> Num(95)
      [] range.k = "ninf" -> NegInf
      [] OTHER ->
            LET normalizedRange10 == 7 * range.n
                sum10 == 300 + normalizedRange10
                confidence10 == IF sum10 <= 950 THEN sum10 ELSE 950
            IN  Num(RoundTenths(confidence10))

\* !scores || !Array.isArray(scores) || scores.length < 2
TooFewScores(scores) ==
    ~ToBoolean(scores) \/ ~IsArray(scores) \/ Len(scores.a) < 2

calculateConfidence(scores) ==
    IF TooFewScores(scores) THEN Return(Num(50))
    ELSE LET validScores == NonNegative(SelectSeq(scores.a, IsValidScore))
         IN  IF Len(validScores) < 2 THEN Return(Num(50))
             ELSE LET maxScore == MathMaxOf(validScores)
                      minScore == MathMinOf(validScores)
                      range == Minus(maxScore, minScore)
                  IN  IF range = Num(0) THEN Return(Num(50))
                      ELSE Return(ConfidenceOfRange(range))

(***************************************************************************)
(* DecisionResults (components/decision-results.tsx): the confidence it    *)
(* displays, computed from its result prop when the component renders.     *)
(***************************************************************************)
\* DisplayedConfidence reading the result's confidence field
DisplayedConfidenceField(result) == Return(Get(result, "confidence"))

\* calculateConfidence(result.scores.map(s => s.overall_score)).  Reading a
\* property of null or undefined, and calling map on a value that is not an
\* array, throw a TypeError.
DisplayedConfidence(result) ==
    IF Nullish(result) THEN Throw("TypeError")
    ELSE LET scores == Get(result, "scores")
         IN  IF ~IsArray(scores) THEN Throw("TypeError")
             ELSE IF \E i \in 1..Len(scores.a) : Nullish(scores.a[i])
             THEN Throw("TypeError")
             ELSE calculateConfidence(
                      Arr([i \in 1..Len(scores.a) |->
                              Get(scores.a[i], "overall_score")]))

(***************************************************************************)
(* Specification of the normalizer: one call on a drawn argument, and the  *)
(* result it returned displayed by DecisionResults.                        *)
(***************************************************************************)
InitNormalizer ==
    /\ vaInput \in NormalizerInputs
    /\ vaOutput = Pending
    /\ vaAgain = Pending
    /\ drOutput = Pending
    /\ EstimatorIdle
    /\ ValidatorIdle
    /\ PageIdle
    /\ AppIdle

Normalize ==
    /\ vaOutput = Pending
    /\ vaOutput' = validateAnalysisResult(vaInput)
    /\ UNCHANGED <<vaInput, vaAgain, drOutput, estimatorVars, validatorVars,
                   pageVars, appVars>>

\* a second call, on the result the first call returned
NormalizeAgain ==
    /\ vaOutput.kind = "return"
    /\ vaAgain = Pending
    /\ vaAgain' = validateAnalysisResult(vaOutput.value)
    /\ UNCHANGED <<vaInput, vaOutput, drOutput, estimatorVars, validatorVars,
                   pageVars, appVars>>

\* DecisionResults rendered with a result the normalizer returned
DisplayNormalized ==
    /\ vaOutput.kind = "return"
    /\ drOutput = Pending
    /\ drOutput' = DisplayedConfidence(vaOutput.value)
    /\ UNCHANGED <<vaInput, vaOutput, vaAgain, estimatorVars, validatorVars,
                   pageVars, appVars>>

NextNormalizer == Normalize \/ NormalizeAgain \/ DisplayNormalized

SpecNormalizer == InitNormalizer /\ [][NextNormalizer]_vars

(***************************************************************************)
(* Arguments the estimator is applied to, and its specification.           *)
(***************************************************************************)
MaxEntries == 3     \* longest scores array drawn

ScoreEntries ==
    {Num(-10), Num(0), Num(40), Num(45), Num(50), Num(60), Num(70), Num(100),
     Num(150), NaN, PosInf, NegInf, Str("70"), Null, Undef}

EstimatorInputs ==
    {Arr(a) : a \in SeqsUpTo(ScoreEntries, MaxEntries)}
        \cup {Undef, Null, Num(0), Num(70), Str("70,80"), Bool(TRUE),
              Obj([length |-> Num(2)])}

InitEstimator ==
    /\ ccInput \in EstimatorInputs
    /\ ccOutput = Pending
    /\ NormalizerIdle
    /\ ValidatorIdle
    /\ PageIdle
    /\ AppIdle

Estimate ==
    /\ ccOutput = Pending
    /\ ccOutput' = calculateConfidence(ccInput)
    /\ UNCHANGED <<ccInput, normalizerVars, validatorVars, pageVars,
                   appVars>>

NextEstimator == Estimate

SpecEstimator == InitEstimator /\ [][NextEstimator]_vars

(***************************************************************************)
(* validateDecisionInput (lib/data-transform.ts)                           *)
(*                                                                         *)
(* The validator trims strings and reads their length, so the strings of   *)
(* a decision are held by their characters: Text(<<"a", " ">>).  An error  *)
(* message is the text pre \o ref \o post, where ref holds the characters  *)
(* a template literal interpolates (empty for a fixed message).            *)
(***************************************************************************)
TitleMaxLength == 200
ContextMinLength == 10
ContextMaxLength == 2000
MinOptions == 2
MaxOptions == 5
MinWeight == 1
MaxWeight == 10

Text(chars) == [t |-> "string", c |-> chars]
Message(pre, ref, post) == [pre |-> pre, ref |-> ref, post |-> post]
Fixed(text) == Message(text, <<>>, "")

\* the characters String.prototype.trim removes
IsWhitespace(ch) == ch \in {" ", "\t", "\n"}

\* chars.trim()
Trim(chars) ==
    LET kept == {i \in 1..Len(chars) : ~IsWhitespace(chars[i])}
    IN  IF kept = {} THEN <<>>
        ELSE SubSeq(chars,
                    CHOOSE i \in kept : \A j \in kept : i <= j,
                    CHOOSE i \in kept : \A j \in kept : j <= i)

\* v?.trim(): undefined when v is nullish, the trimmed string when v is a
\* string, and a TypeError (v.trim is not a function) for any other value.
OptTrim(v) ==
    IF Nullish(v) THEN Return(Undef)
    ELSE IF v.t = "string" THEN Return(Text(Trim(v.c)))
    ELSE Throw("TypeError")

\* a < b on numbers (false when either is NaN)
NumLt(a, b) == ~IsNaN(a) /\ ~IsNaN(b) /\ NumLe(a, b) /\ a # b

\* decimal digits of a natural number, as characters
RECURSIVE NatChars(_)
NatChars(i) ==
    IF i < 10 THEN <<Digits[i + 1]>>
    ELSE Append(NatChars(i \div 10), Digits[(i % 10) + 1])

\* The errors of two consecutive statements: a throw in the first ends the
\* call, otherwise the second runs and pushes after the first.
Then(first, second) ==
    IF first.kind = "throw" THEN first
    ELSE IF second.kind = "throw" THEN second
    ELSE Return(first.value \o second.value)

\* lines 67-71
TitleErrors(decision) ==
    LET trimmed == OptTrim(OptGet(decision, "title"))
    IN  IF trimmed.kind = "throw" THEN trimmed
        ELSE IF ~ToBoolean(trimmed.value)
        THEN Return(<<Fixed("Decision title is required")>>)
        ELSE IF Len(Get(decision, "title").c) > TitleMaxLength
        THEN Return(<<Fixed("Decision title must be less than 200 characters")>>)
        ELSE Return(<<>>)

\* ContextTooShort with <= in place of <
ContextTooShortInclusive(context) == Len(context.c) <= ContextMinLength

\* decision.context.length < 10
ContextTooShort(context) == Len(context.c) < ContextMinLength

\* lines 73-79
ContextErrors(decision) ==
    LET trimmed == OptTrim(OptGet(decision, "context"))
    IN  IF trimmed.kind = "throw" THEN trimmed
        ELSE IF ~ToBoolean(trimmed.value)
        THEN Return(<<Fixed("Context is required")>>)
        ELSE IF ContextTooShort(Get(decision, "context"))
        THEN Return(<<Fixed("Context must be at least 10 characters")>>)
        ELSE IF Len(Get(decision, "context").c) > ContextMaxLength
        THEN Return(<<Fixed("Context must be less than 2000 characters")>>)
        ELSE Return(<<>>)

\* KeepsOption without the trim: (opt) => opt?.length > 0
KeepsOptionUntrimmed(opt) ==
    IF Nullish(opt) THEN Return(FALSE)
    ELSE IF opt.t = "string" THEN Return(Len(opt.c) > 0)
    ELSE Return(FALSE)

\* (opt) => opt?.trim().length > 0
KeepsOption(opt) ==
    LET trimmed == OptTrim(opt)
    IN  IF trimmed.kind = "throw" THEN trimmed
        ELSE Return(IF Nullish(opt) THEN FALSE ELSE Len(trimmed.value.c) > 0)

\* decision?.options?.filter(...) || []
ValidOptions(decision) ==
    LET options == OptGet(decision, "options")
    IN  IF Nullish(options) THEN Return(<<>>)
        ELSE IF ~IsArray(options) THEN Throw("TypeError")
        ELSE IF \E i \in 1..Len(options.a) : KeepsOption(options.a[i]).kind = "throw"
        THEN Throw("TypeError")
        ELSE Return(SelectSeq(options.a, LAMBDA opt : KeepsOption(opt).value))

\* lines 81-88
OptionsErrors(decision) ==
    LET validOptions == ValidOptions(decision)
    IN  IF validOptions.kind = "throw" THEN validOptions
        ELSE Return(
            (IF Len(validOptions.value) < MinOptions
             THEN <<Fixed("At least 2 options are required")>> ELSE <<>>)
            \o
            (IF Len(validOptions.value) > MaxOptions
             THEN <<Fixed("Maximum 5 options allowed")>> ELSE <<>>))

\* ${priority?.name || `#${index + 1}`} where name is nullish or a string
PriorityLabel(priority, index) ==
    IF ToBoolean(OptGet(priority, "name"))
    THEN OptGet(priority, "name").c
    ELSE <<"#">> \o NatChars(index + 1)

\* lines 94-96
PriorityNameErrors(priority, index) ==
    LET trimmed == OptTrim(OptGet(priority, "name"))
    IN  IF trimmed.kind = "throw" THEN trimmed
        ELSE IF ~ToBoolean(trimmed.value)
        THEN Return(<<Message("Priority ", NatChars(index + 1), " must have a name")>>)
        ELSE Return(<<>>)

\* typeof priority?.weight !== 'number' || priority.weight < 1 || priority.weight > 10
BadWeight(priority) ==
    LET weight == OptGet(priority, "weight")
    IN  \/ TypeOf(weight) # "number"
        \/ NumLt(weight, Num(MinWeight))
        \/ NumLt(Num(MaxWeight), weight)

\* lines 97-99
PriorityWeightErrors(priority, index) ==
    IF BadWeight(priority)
    THEN Return(<<Message("Priority \"", PriorityLabel(priority, index),
                          "\" must have a weight between 1-10")>>)
    ELSE Return(<<>>)

\* lines 101-103
PriorityDescriptionErrors(priority, index) ==
    LET trimmed == OptTrim(OptGet(priority, "description"))
    IN  IF trimmed.kind = "throw" THEN trimmed
        ELSE IF ~ToBoolean(trimmed.value)
        THEN Return(<<Message("Priority \"", PriorityLabel(priority, index),
                              "\" must have a description")>>)
        ELSE Return(<<>>)

\* the body of the forEach callback for one priority (index from 0)
PriorityErrors(priority, index) ==
    Then(PriorityNameErrors(priority, index),
         Then(PriorityWeightErrors(priority, index),
              PriorityDescriptionErrors(priority, index)))

\* decision.priorities.forEach(...), from element i (from 1) on
RECURSIVE ForEachPriority(_, _)
ForEachPriority(priorities, i) ==
    IF i > Len(priorities) THEN Return(<<>>)
    ELSE Then(PriorityErrors(priorities[i], i - 1),
              ForEachPriority(priorities, i + 1))

\* lines 90-105
PrioritiesErrors(decision) ==
    LET priorities == OptGet(decision, "priorities")
    IN  IF ~ToBoolean(priorities) \/ ~IsArray(priorities) \/ Len(priorities.a) = 0
        THEN Return(<<Fixed("At least one priority is required")>>)
        ELSE ForEachPriority(priorities.a, 1)

validateDecisionInput(decision) ==
    Then(TitleErrors(decision),
         Then(ContextErrors(decision),
              Then(OptionsErrors(decision),
                   PrioritiesErrors(decision))))

(***************************************************************************)
(* validateDecisionInput (lib/utils.ts): the same statements for title,    *)
(* context and options, and a forEach callback that checks the name and    *)
(* the weight of a priority only.                                          *)
(***************************************************************************)
\* utils.ts lines 59-66: the body of the forEach callback
PriorityErrorsUtils(priority, index) ==
    Then(PriorityNameErrors(priority, index),
         PriorityWeightErrors(priority, index))

RECURSIVE ForEachPriorityUtils(_, _)
ForEachPriorityUtils(priorities, i) ==
    IF i > Len(priorities) THEN Return(<<>>)
    ELSE Then(PriorityErrorsUtils(priorities[i], i - 1),
              ForEachPriorityUtils(priorities, i + 1))

\* utils.ts lines 56-67
PrioritiesErrorsUtils(decision) ==
    LET priorities == OptGet(decision, "priorities")
    IN  IF ~ToBoolean(priorities) \/ ~IsArray(priorities) \/ Len(priorities.a) = 0
        THEN Return(<<Fixed("At least one priority is required")>>)
        ELSE ForEachPriorityUtils(priorities.a, 1)

\* utils.ts lines 30-70
validateDecisionInputUtils(decision) ==
    Then(TitleErrors(decision),
         Then(ContextErrors(decision),
              Then(OptionsErrors(decision),
                   PrioritiesErrorsUtils(decision))))

(***************************************************************************)
(* Arguments the validator is applied to, and its specification.           *)
(***************************************************************************)
MaxOptionsDrawn == 3    \* longest options array drawn entry by entry
MaxPriorities == 2      \* longest priorities array drawn

\* n copies of x
Rep(x, n) == [i \in 1..n |-> x]

TitleValues ==
    {Undef, Null, Num(5), Text(<<>>), Text(<<" ">>), Text(<<"a">>),
     Text(<<" ", "a", " ">>), Text(Rep("a", TitleMaxLength)),
     Text(Rep("a", TitleMaxLength + 1))}

ContextValues ==
    {Undef, Num(5), Text(<<>>), Text(Rep(" ", ContextMinLength)),
     Text(Rep("a", ContextMinLength - 1)), Text(Rep("a", ContextMinLength)),
     Text(<<" ">> \o Rep("a", ContextMinLength - 1)),
     Text(Rep("a", ContextMaxLength)), Text(Rep("a", ContextMaxLength + 1))}

OptionEntries ==
    {Text(<<"a">>), Text(<<"b">>), Text(<<>>), Text(<<" ", " ">>), Null, Num(3)}

OptionsValues ==
    {Arr(a) : a \in SeqsUpTo(OptionEntries, MaxOptionsDrawn)}
        \cup {Undef, Text(<<"a", ",", "b">>), Obj(<<>>),
              Arr(<<Text(<<"a">>), Text(<<"b">>), Text(<<>>), Text(<<" ", " ">>)>>),
              Arr(Rep(Text(<<"a">>), MaxOptions)),
              Arr(Rep(Text(<<"a">>), MaxOptions + 1)),
              Arr(Rep(Text(<<"a">>), MaxOptions) \o <<Text(<<" ">>)>>)}

NameValues == {Undef, Text(<<>>), Text(<<" ">>), Text(<<"C", "o", "s", "t">>)}
WeightValues == {Undef, Num(0), Num(1), Num(10), Num(11)}
DescriptionValues == {Undef, Text(<<" ">>), Text(<<"d">>)}

PriorityEntries ==
    {ObjLit([name |-> n, weight |-> w, description |-> Text(<<"d">>)]) :
        n \in NameValues, w \in WeightValues}
    \cup {ObjLit([name |-> n, weight |-> Num(5), description |-> d]) :
        n \in NameValues, d \in DescriptionValues}
    \cup {ObjLit([name |-> Text(<<"T">>), weight |-> NaN, description |-> Text(<<"d">>)]),
          ObjLit([name |-> Text(<<"T">>), weight |-> Text(<<"5">>),
                  description |-> Text(<<"d">>)]),
          ObjLit([name |-> Text(<<" ">>), weight |-> Num(0)]),
          ObjLit([name |-> Num(1), weight |-> Num(5), description |-> Text(<<"d">>)]),
          ObjLit([name |-> Text(<<"T">>), weight |-> Num(5), description |-> Num(1)]),
          Null, Num(7)}

PrioritiesValues ==
    {Arr(a) : a \in SeqsUpTo(PriorityEntries, MaxPriorities)}
        \cup {Undef, Text(<<"p">>), Obj(<<>>)}

\* one acceptable and one missing value of each field
FewTitles == {Undef, Text(<<"a">>)}
FewContexts == {Undef, Text(Rep("a", ContextMinLength))}
FewOptions == {Undef, Arr(<<Text(<<"a">>), Text(<<"b">>)>>)}
FewPriorities ==
    {Undef,
     Arr(<<ObjLit([name |-> Text(<<"C", "o", "s", "t">>), weight |-> Num(5),
                   description |-> Text(<<"d">>)])>>)}

Decision(title, context, options, priorities) ==
    ObjLit([title |-> title, context |-> context, options |-> options,
            priorities |-> priorities])

\* every field in turn takes all its values against the few values of the
\* others; the priorities against the others all acceptable or all missing
TitleDecisions ==
    {Decision(t, c, o, p) :
        t \in TitleValues, c \in FewContexts, o \in FewOptions, p \in FewPriorities}

ContextDecisions ==
    {Decision(t, c, o, p) :
        t \in FewTitles, c \in ContextValues, o \in FewOptions, p \in FewPriorities}

OptionsDecisions ==
    {Decision(t, c, o, p) :
        t \in FewTitles, c \in FewContexts, o \in OptionsValues, p \in FewPriorities}

PrioritiesDecisions ==
    {Decision(Text(<<"a">>), Text(Rep("a", ContextMinLength)),
              Arr(<<Text(<<"a">>), Text(<<"b">>)>>), p) :
        p \in PrioritiesValues}

MissingFieldsDecisions ==
    {Decision(Undef, Undef, Undef, p) : p \in PrioritiesValues}

DecisionObjects ==
    PrioritiesDecisions \cup (MissingFieldsDecisions \cup (OptionsDecisions
        \cup (ContextDecisions \cup TitleDecisions)))

ValidatorInputs ==
    {Undef, Null, Num(5), Text(<<"a">>), Bool(TRUE), Arr(<<>>)} \cup DecisionObjects

InitValidator ==
    /\ vdInput \in ValidatorInputs
    /\ vdOutput = Pending
    /\ vuOutput = Pending
    /\ NormalizerIdle
    /\ EstimatorIdle
    /\ PageIdle
    /\ AppIdle

\* a call of the function lib/data-transform.ts exports
Validate ==
    /\ vdOutput = Pending
    /\ vdOutput' = validateDecisionInput(vdInput)
    /\ UNCHANGED <<vdInput, vuOutput, normalizerVars, estimatorVars, pageVars,
                   appVars>>

\* a call of the function lib/utils.ts exports, on the same argument
ValidateUtils ==
    /\ vuOutput = Pending
    /\ vuOutput' = validateDecisionInputUtils(vdInput)
    /\ UNCHANGED <<vdInput, vdOutput, normalizerVars, estimatorVars, pageVars,
                   appVars>>

NextValidator == Validate \/ ValidateUtils

SpecValidator == InitValidator /\ [][NextValidator]_vars

(***************************************************************************)
(* DecisionForm (components/decision-form.tsx): a three-step form.  Step 1 *)
(* edits the title and the context, step 2 the options, step 3 the weights *)
(* of the priorities; handleSubmit hands the form data to Home.            *)
(***************************************************************************)
Priority(name, weight, description) ==
    Obj([name |-> Text(name), weight |-> Num(weight),
         description |-> Text(description)])

defaultPriorities ==
    <<Priority(<<"C", "a", "r", "e", "e", "r", " ", "G", "r", "o", "w", "t",
                 "h">>,
               8,
               <<"P", "r", "o", "f", "e", "s", "s", "i", "o", "n", "a", "l",
                 " ", "d", "e", "v", "e", "l", "o", "p", "m", "e", "n", "t",
                 " ", "o", "p", "p", "o", "r", "t", "u", "n", "i", "t", "i",
                 "e", "s">>),
      Priority(<<"W", "o", "r", "k", "-", "L", "i", "f", "e", " ", "B", "a",
                 "l", "a", "n", "c", "e">>,
               7,
               <<"T", "i", "m", "e", " ", "f", "o", "r", " ", "p", "e", "r",
                 "s", "o", "n", "a", "l", " ", "l", "i", "f", "e", " ", "a",
                 "n", "d", " ", "h", "o", "b", "b", "i", "e", "s">>),
      Priority(<<"F", "i", "n", "a", "n", "c", "i", "a", "l", " ", "S", "t",
                 "a", "b", "i", "l", "i", "t", "y">>,
               6,
               <<"I", "n", "c", "o", "m", "e", " ", "s", "e", "c", "u", "r",
                 "i", "t", "y", " ", "a", "n", "d", " ", "b", "e", "n", "e",
                 "f", "i", "t", "s">>),
      Priority(<<"P", "e", "r", "s", "o", "n", "a", "l", " ", "F", "u", "l",
                 "f", "i", "l", "l", "m", "e", "n", "t">>,
               9,
               <<"S", "e", "n", "s", "e", " ", "o", "f", " ", "p", "u", "r",
                 "p", "o", "s", "e", " ", "a", "n", "d", " ", "s", "a", "t",
                 "i", "s", "f", "a", "c", "t", "i", "o", "n">>),
      Priority(<<"L", "e", "a", "r", "n", "i", "n", "g", " ", "O", "p", "p",
                 "o", "r", "t", "u", "n", "i", "t", "y">>,
               7,
               <<"C", "h", "a", "n", "c", "e", " ", "t", "o", " ", "a", "c",
                 "q", "u", "i", "r", "e", " ", "n", "e", "w", " ", "s", "k",
                 "i", "l", "l", "s">>)>>

\* useState({title: '', context: '', options: ['', ''], priorities: ...})
initialFormData ==
    Obj([title |-> Text(<<>>), context |-> Text(<<>>),
         options |-> Arr(<<Text(<<>>), Text(<<>>)>>),
         priorities |-> Arr(defaultPriorities)])

\* what the user types or drags to
TitleTyped == {Text(<<>>), Text(<<" ">>), Text(<<"a">>)}
ContextTyped ==
    {Text(<<>>), Text(<<" ">>), Text(<<"a", "b", "c">>), Text(Rep("a", 10))}
OptionTyped == {Text(<<>>), Text(<<"a">>)}
WeightDragged == {<<4, 10>>}    \* <<index, parseInt(e.target.value)>>

\* Home renders DecisionForm for a signed-in user while there is no result
\* (page.tsx lines 95-97 and 176-181).  The user leaves the form alone
\* while an analysis is in flight.
FormShown == ToBoolean(user) /\ ~ToBoolean(analysisResult)
FormIdle == FormShown /\ ~isLoading

\* {...formData, [key]: value}
WithField(data, key, value) == Obj([data.o EXCEPT ![key] = value])

\* a with its element at index (from 0) replaced by value
WithElement(a, index, value) == [a EXCEPT ![index + 1] = value]

\* opt.trim() is not empty
TrimsToText(opt) == Len(Trim(opt.c)) > 0

unchangedButForm ==
    UNCHANGED <<user, lastCall, isLoading, currentDecision, analysisResult, toastShown,
                pc, apiRequest, apiResponse, backendRequest, backendResponse,
                normalizerVars, estimatorVars, validatorVars,
                   appVars>>

\* onChange of the title input (line 113)
setTitle ==
    /\ FormIdle /\ step = 1
    /\ \E value \in TitleTyped : formData' = WithField(formData, "title", value)
    /\ UNCHANGED step
    /\ unchangedButForm

\* onChange of the context textarea (line 124)
setContext ==
    /\ FormIdle /\ step = 1
    /\ \E value \in ContextTyped : formData' = WithField(formData, "context", value)
    /\ UNCHANGED step
    /\ unchangedButForm

\* Next of step 1, disabled while the title is blank (line 128)
nextToOptions ==
    /\ FormIdle /\ step = 1
    /\ TrimsToText(Get(formData, "title"))
    /\ step' = 2
    /\ UNCHANGED formData
    /\ unchangedButForm

\* updateOption (lines 33-37)
updateOption ==
    /\ FormIdle /\ step = 2
    /\ \E index \in 0..(Len(Get(formData, "options").a) - 1), value \in OptionTyped :
           formData' = WithField(formData, "options",
                           Arr(WithElement(Get(formData, "options").a, index, value)))
    /\ UNCHANGED step
    /\ unchangedButForm

\* addOption (lines 39-43)
addOption ==
    /\ FormIdle /\ step = 2
    /\ Len(Get(formData, "options").a) < 5
    /\ formData' = WithField(formData, "options",
                       Arr(Append(Get(formData, "options").a, Text(<<>>))))
    /\ UNCHANGED step
    /\ unchangedButForm

\* removeOption (lines 45-50)
removeOption ==
    /\ FormIdle /\ step = 2
    /\ Len(Get(formData, "options").a) > 2
    /\ \E index \in 0..(Len(Get(formData, "options").a) - 1) :
           LET options == Get(formData, "options").a
           IN  formData' = WithField(formData, "options",
                   Arr(SubSeq(options, 1, index)
                           \o SubSeq(options, index + 2, Len(options))))
    /\ UNCHANGED step
    /\ unchangedButForm

\* Back of step 2 (line 179)
backToContext ==
    /\ FormIdle /\ step = 2
    /\ step' = 1
    /\ UNCHANGED formData
    /\ unchangedButForm

\* Next of step 2, disabled below two non-blank options (lines 184-185)
nextToPriorities ==
    /\ FormIdle /\ step = 2
    /\ Len(SelectSeq(Get(formData, "options").a, TrimsToText)) >= 2
    /\ step' = 3
    /\ UNCHANGED formData
    /\ unchangedButForm

\* updatePriorityWeight (lines 52-56)
updatePriorityWeight ==
    /\ FormIdle /\ step = 3
    /\ \E drag \in WeightDragged :
           LET priorities == Get(formData, "priorities").a
               index == drag[1]
               weight == Num(drag[2])
           IN  formData' = WithField(formData, "priorities",
                   Arr(WithElement(priorities, index,
                           WithField(priorities[index + 1], "weight", weight))))
    /\ UNCHANGED step
    /\ unchangedButForm

\* Back of step 3 (line 240)
backToOptions ==
    /\ FormIdle /\ step = 3
    /\ step' = 2
    /\ UNCHANGED formData
    /\ unchangedButForm

\* handleSubmit's argument without the filter of line 61
SubmittedDataUnfiltered(data) == data

\* the argument handleSubmit passes to onSubmit (lines 58-63)
SubmittedData(data) ==
    WithField(data, "options", Arr(SelectSeq(Get(data, "options").a, TrimsToText)))

(***************************************************************************)
(* Home (app/page.tsx) and the route /api/analyze-decision (route.ts).     *)
(*                                                                         *)
(* handleAnalyzeDecision suspends at its awaits, so one analysis request   *)
(* is a chain of steps, and pc tells where it stands:                      *)
(*   "idle"            no request under way                                *)
(*   "getAuthHeaders"  Home awaits getAuthHeaders()                        *)
(*   "route"           the POST is at the route                            *)
(*   "backend"         the route awaits the backend                        *)
(*   "routeResumes"    the backend has answered the route                  *)
(*   "response"        the route's answer is on its way to Home            *)
(***************************************************************************)
\* JSON.parse(JSON.stringify(v)): numbers that are not finite and undefined
\* array elements become null, undefined properties are dropped
RECURSIVE JsonRoundTrip(_)
JsonRoundTrip(v) ==
    CASE v.t = "number" -> IF v.k = "fin" THEN v ELSE Null
      [] v.t = "array" ->
            Arr([i \in 1..Len(v.a) |->
                    IF v.a[i].t = "undefined" THEN Null ELSE JsonRoundTrip(v.a[i])])
      [] v.t = "object" ->
            Obj([key \in {q \in DOMAIN v.o : v.o[q].t # "undefined"} |->
                    JsonRoundTrip(v.o[key])])
      [] OTHER -> v

Request(body) == [kind |-> "request", body |-> body]
Response(status, body) == [kind |-> "response", status |-> status, body |-> body]

\* response.ok
Ok(response) == 200 <= response.status /\ response.status <= 299

ErrorBody(error, detail) == Obj([error |-> Str(error), detail |-> Str(detail)])

SignedInUser == Obj([id |-> Str("u1")])

FailureToast == Str("Analysis failed. Please try again.")

\* handleAnalyzeDecision(decisionData) down to its first await (page.tsx
\* lines 26-32): it returns at once when no user is signed in
AnalyzeCalled(decisionData) ==
    IF ~ToBoolean(user)
    THEN /\ lastCall' = "returned"
         /\ UNCHANGED <<isLoading, currentDecision, pc>>
    ELSE /\ lastCall' = "started"
         /\ isLoading' = TRUE
         /\ currentDecision' = decisionData
         /\ pc' = "getAuthHeaders"

\* handleSubmit of the form, which calls onSubmit (part_013 lines 58-63)
handleSubmit ==
    /\ FormShown /\ step = 3
    /\ ~isLoading
    /\ pc = "idle"
    /\ AnalyzeCalled(SubmittedData(formData))
    /\ UNCHANGED <<user, step, formData, analysisResult, toastShown,
                   apiRequest, apiResponse, backendRequest, backendResponse,
                   normalizerVars, estimatorVars, validatorVars,
                   appVars>>

\* getAuthHeaders() awaited outside the try block: its error ends the call
\* with neither the catch nor the finally block run
getAuthHeadersUncaught ==
    /\ pc = "getAuthHeaders"
    /\ \E hasToken \in BOOLEAN :
           IF hasToken
           THEN /\ apiRequest' = Request(JsonRoundTrip(currentDecision))
                /\ pc' = "route"
           ELSE /\ pc' = "idle"
                /\ UNCHANGED apiRequest
    /\ UNCHANGED <<user, lastCall, step, formData, currentDecision,
                   analysisResult, toastShown, isLoading,
                   apiResponse, backendRequest, backendResponse,
                   normalizerVars, estimatorVars, validatorVars,
                   appVars>>

\* getAuthHeaders() settles (part_009 lines 3-14): with a session token the
\* POST leaves (page.tsx lines 34-38), without one it throws and the
\* catch and finally blocks run (lines 46-51)
getAuthHeaders ==
    /\ pc = "getAuthHeaders"
    /\ \E hasToken \in BOOLEAN :
           IF hasToken
           THEN /\ apiRequest' = Request(JsonRoundTrip(currentDecision))
                /\ pc' = "route"
                /\ UNCHANGED <<toastShown, isLoading>>
           ELSE /\ toastShown' = FailureToast
                /\ isLoading' = FALSE
                /\ pc' = "idle"
                /\ UNCHANGED apiRequest
    /\ UNCHANGED <<user, lastCall, step, formData, currentDecision, analysisResult,
                   apiResponse, backendRequest, backendResponse,
                   normalizerVars, estimatorVars, validatorVars,
                   appVars>>

\* a body that JSON.parse rejects
InvalidJson == [t |-> "invalid-json"]

\* route.ts line 10
MissingRequiredFields(decisionData) ==
    \/ ~ToBoolean(Get(decisionData, "title"))
    \/ ~ToBoolean(Get(decisionData, "context"))
    \/ ~ToBoolean(Get(decisionData, "options"))
    \/ ~ToBoolean(Get(decisionData, "priorities"))

\* decisionData.options.length < 2 (route.ts line 17)
TooFewOptionsSent(decisionData) ==
    LET options == Get(decisionData, "options")
    IN  CASE options.t = "array" -> Len(options.a) < 2
          [] options.t = "string" -> Len(options.c) < 2
          [] OTHER -> FALSE

\* POST of the route, down to its fetch of the backend (route.ts lines 7-35);
\* request.json() rejecting the body, or decisionData.title read on null,
\* throws into the catch block (lines 64-94)
routePOST ==
    /\ pc = "route"
    /\ LET decisionData == apiRequest.body
       IN  IF decisionData = InvalidJson \/ Nullish(decisionData)
           THEN /\ apiResponse' = Response(500,
                       ErrorBody("Internal server error",
                                 "An unexpected error occurred. Please try again."))
                /\ pc' = "response"
                /\ UNCHANGED backendRequest
           ELSE IF MissingRequiredFields(decisionData)
           THEN /\ apiResponse' = Response(400,
                       Obj([error |-> Str("Missing required fields: title, context, options, and priorities are required")]))
                /\ pc' = "response"
                /\ UNCHANGED backendRequest
           ELSE IF TooFewOptionsSent(decisionData)
           THEN /\ apiResponse' = Response(400,
                       Obj([error |-> Str("At least 2 options are required")]))
                /\ pc' = "response"
                /\ UNCHANGED backendRequest
           ELSE /\ backendRequest' = Request(JsonRoundTrip(decisionData))
                /\ pc' = "backend"
                /\ UNCHANGED apiResponse
    /\ UNCHANGED <<user, lastCall, step, formData, isLoading, currentDecision,
                   analysisResult, toastShown, apiRequest, backendResponse,
                   normalizerVars, estimatorVars, validatorVars,
                   appVars>>

\* What the backend can do with a request: answer with a status and a
\* body, or let the fetch fail.
FetchFailure(name) == [kind |-> "error", name |-> name]

\* a complete AnalysisResult, as the normalizer returns it
WellFormedBody ==
    JsonRoundTrip(validateAnalysisResult(
        Obj([scores |->
                 Arr(<<Obj([option |-> Str("A"), overall_score |-> Num(72)]),
                       Obj([option |-> Str("B"), overall_score |-> Num(91)])>>),
             confidence |-> Num(85),
             recommended_option |-> Str("B")])).value)

\* the JSON bodies the backend answers with under an OK status
ProviderBodies ==
    {WellFormedBody,
     Obj([scores |-> Arr(<<>>)]),
     Obj([scores |-> Arr(<<Obj([option |-> Str("A"), overall_score |-> Num(150)])>>),
          confidence |-> Num(250)]),
     Obj(<<>>), Arr(<<>>), Null, Str("x"), Num(5)}

BackendOutcomes ==
    {Response(200, body) : body \in ProviderBodies \cup {InvalidJson}}
        \cup {Response(status, Str("detail")) : status \in {422, 500}}
        \cup {FetchFailure("TimeoutError"), FetchFailure("TypeError")}

\* the backend, or the network, settles the route's fetch
backendAnswers ==
    /\ pc = "backend"
    /\ backendResponse' \in BackendOutcomes
    /\ pc' = "routeResumes"
    /\ UNCHANGED <<user, lastCall, step, formData, isLoading, currentDecision,
                   analysisResult, toastShown, apiRequest, apiResponse,
                   backendRequest, normalizerVars, estimatorVars, validatorVars,
                   appVars>>

\* the route's answer once its fetch has settled (route.ts lines 37-95)
RouteAnswer(settled) ==
    IF settled.kind = "error"
    THEN IF settled.name = "TimeoutError"
         THEN Response(504, ErrorBody("Analysis timeout",
                  "The analysis is taking longer than expected. Please try again."))
         ELSE IF settled.name = "TypeError"
         THEN Response(503, ErrorBody("Backend service unavailable",
                  "Cannot connect to analysis service. Please check if the backend is running."))
         ELSE Response(500, ErrorBody("Internal server error",
                  "An unexpected error occurred. Please try again."))
    ELSE IF ~Ok(settled)
    THEN Response(settled.status,
             ErrorBody("Analysis service temporarily unavailable",
                       "Please try again in a few moments"))
    ELSE IF settled.body = InvalidJson
    THEN Response(500, ErrorBody("Internal server error",
             "An unexpected error occurred. Please try again."))
    ELSE Response(200, JsonRoundTrip(settled.body))

routeResumes ==
    /\ pc = "routeResumes"
    /\ apiResponse' = RouteAnswer(backendResponse)
    /\ pc' = "response"
    /\ UNCHANGED <<user, lastCall, step, formData, isLoading, currentDecision,
                   analysisResult, toastShown, apiRequest, backendRequest,
                   backendResponse, normalizerVars, estimatorVars, validatorVars,
                   appVars>>

\* handleAnalyzeDecision resumes with the route's answer (page.tsx lines
\* 40-51), which ends the exchange.  A truthy analysisResult makes Home
\* render DecisionResults in place of DecisionForm (lines 176-188), whose
\* state is then gone.
handleAnalyzeDecision ==
    /\ pc = "response"
    /\ IF ~Ok(apiResponse)
       THEN /\ toastShown' = FailureToast
            /\ UNCHANGED <<analysisResult, step, formData>>
       ELSE /\ analysisResult' = apiResponse.body
            /\ IF ToBoolean(apiResponse.body)
               THEN step' = 0 /\ formData' = Null
               ELSE UNCHANGED <<step, formData>>
            /\ UNCHANGED toastShown
    /\ isLoading' = FALSE
    /\ pc' = "idle"
    /\ apiRequest' = NoMessage
    /\ apiResponse' = NoMessage
    /\ backendRequest' = NoMessage
    /\ backendResponse' = NoMessage
    /\ UNCHANGED <<user, lastCall, currentDecision,
                   normalizerVars, estimatorVars, validatorVars,
                   appVars>>

\* the browser's fetch of /api/analyze-decision rejects (page.tsx lines
\* 34-38): the catch and finally blocks run (lines 46-51)
fetchRejects ==
    /\ pc \in {"route", "backend", "routeResumes", "response"}
    /\ toastShown' = FailureToast
    /\ isLoading' = FALSE
    /\ pc' = "idle"
    /\ apiRequest' = NoMessage
    /\ apiResponse' = NoMessage
    /\ backendRequest' = NoMessage
    /\ backendResponse' = NoMessage
    /\ UNCHANGED <<user, lastCall, step, formData, currentDecision,
                   analysisResult, normalizerVars, estimatorVars,
                   validatorVars, appVars>>

\* Home renders DecisionResults with result={analysisResult}
renderDecisionResults ==
    /\ ToBoolean(user) /\ ToBoolean(analysisResult)
    /\ drOutput = Pending
    /\ drOutput' = DisplayedConfidence(analysisResult)
    /\ UNCHANGED <<vaInput, vaOutput, vaAgain, estimatorVars, validatorVars,
                   pageVars, appVars>>

InitHome ==
    /\ user = SignedInUser
    /\ step = 1
    /\ formData = initialFormData
    /\ isLoading = FALSE
    /\ currentDecision = Null
    /\ analysisResult = Null
    /\ toastShown = Null
    /\ pc = "idle"
    /\ lastCall = "none"
    /\ apiRequest = NoMessage
    /\ apiResponse = NoMessage
    /\ backendRequest = NoMessage
    /\ backendResponse = NoMessage
    /\ NormalizerIdle
    /\ EstimatorIdle
    /\ ValidatorIdle
    /\ AppIdle

NextHome ==
    \/ setTitle \/ setContext \/ nextToOptions
    \/ updateOption \/ addOption \/ removeOption
    \/ backToContext \/ nextToPriorities
    \/ updatePriorityWeight \/ backToOptions
    \/ handleSubmit \/ getAuthHeaders \/ routePOST
    \/ backendAnswers \/ routeResumes
    \/ handleAnalyzeDecision \/ fetchRejects \/ renderDecisionResults

SpecHome == InitHome /\ [][NextHome]_vars

(***************************************************************************)
(* The route /api/analyze-decision on its own: one POST with a drawn body. *)
(***************************************************************************)
SentOptions ==
    {Undef, Arr(<<>>), Arr(<<Text(<<"a">>)>>),
     Arr(<<Text(<<"a">>), Text(<<"b">>)>>),
     Obj(<<>>), Text(<<"a", "b">>)}

AnalyzePayloads ==
    {ObjLit([title |-> title, context |-> context, options |-> options,
             priorities |-> priorities]) :
        title \in {Undef, Text(<<>>), Text(<<"a">>)},
        context \in {Undef, Text(<<"a", "b", "c">>)},
        options \in SentOptions,
        priorities \in {Undef, Arr(<<>>), Arr(<<defaultPriorities[1]>>)}}
        \cup {Null, Num(5), InvalidJson}

InitAnalyzeRoute ==
    /\ user = Null
    /\ step = 0
    /\ formData = Null
    /\ isLoading = FALSE
    /\ currentDecision = Null
    /\ analysisResult = Null
    /\ toastShown = Null
    /\ pc = "route"
    /\ lastCall = "none"
    /\ apiRequest \in {Request(body) : body \in AnalyzePayloads}
    /\ apiResponse = NoMessage
    /\ backendRequest = NoMessage
    /\ backendResponse = NoMessage
    /\ NormalizerIdle
    /\ EstimatorIdle
    /\ ValidatorIdle
    /\ AppIdle

NextAnalyzeRoute == routePOST \/ backendAnswers \/ routeResumes

SpecAnalyzeRoute == InitAnalyzeRoute /\ [][NextAnalyzeRoute]_vars

(***************************************************************************)
(* handleAnalyzeDecision of Home from call to completion: the form stands  *)
(* filled in at step 3, the user may sign out, the browser's fetch may     *)
(* fail, and a call may arrive while no user is signed in.  Every await of *)
(* the chain settles: getSession() answers from the stored session, the       *)
(* route's fetch carries AbortSignal.timeout(60000), and the route returns *)
(* a response on each of its paths.                                        *)
(***************************************************************************)
FilledForm(context) ==
    WithField(WithField(WithField(initialFormData,
        "title", Text(<<"a">>)),
        "context", context),
        "options", Arr(<<Text(<<"a">>), Text(<<"b">>)>>))

\* handleSignOut (page.tsx lines 87-93): useAuth().user becomes null and
\* Home renders AuthForms in place of the form (lines 95-98)
handleSignOut ==
    /\ ToBoolean(user)
    /\ user' = Null
    /\ step' = 0
    /\ formData' = Null
    /\ UNCHANGED <<lastCall, isLoading, currentDecision, analysisResult,
                   toastShown, pc, apiRequest, apiResponse, backendRequest,
                   backendResponse, normalizerVars, estimatorVars,
                   validatorVars, appVars>>

\* handleAnalyzeDecision called while no user is signed in
calledSignedOut ==
    /\ ~ToBoolean(user)
    /\ \E context \in ContextTyped :
           AnalyzeCalled(SubmittedData(FilledForm(context)))
    /\ UNCHANGED <<user, step, formData, analysisResult, toastShown,
                   apiRequest, apiResponse, backendRequest, backendResponse,
                   normalizerVars, estimatorVars, validatorVars, appVars>>

InitAnalysis ==
    /\ user = SignedInUser
    /\ step = 3
    /\ formData \in {FilledForm(context) : context \in ContextTyped}
    /\ isLoading = FALSE
    /\ currentDecision = Null
    /\ analysisResult = Null
    /\ toastShown = Null
    /\ pc = "idle"
    /\ lastCall = "none"
    /\ apiRequest = NoMessage
    /\ apiResponse = NoMessage
    /\ backendRequest = NoMessage
    /\ backendResponse = NoMessage
    /\ NormalizerIdle
    /\ EstimatorIdle
    /\ ValidatorIdle
    /\ AppIdle

NextAnalysis ==
    \/ handleSubmit \/ getAuthHeaders \/ routePOST
    \/ backendAnswers \/ routeResumes
    \/ handleAnalyzeDecision \/ fetchRejects
    \/ handleSignOut \/ calledSignedOut

SpecAnalysis ==
    /\ InitAnalysis
    /\ [][NextAnalysis]_vars
    /\ WF_vars(getAuthHeaders)
    /\ WF_vars(routePOST)
    /\ WF_vars(backendAnswers)
    /\ WF_vars(routeResumes)
    /\ WF_vars(handleAnalyzeDecision)

(***************************************************************************)
(* The route handlers in front of the persistence backend:                 *)
(*   POST /api/save-decision          (save-decision/route.ts lines 38-141)*)
(*   GET /api/decisions               (decisions/route.ts)                 *)
(*   GET, DELETE /api/decisions/[id]  (decisions/[id]/route.ts)            *)
(*                                                                         *)
(* A handler runs down to its fetch of the backend or to an early return,  *)
(* the backend or the network settles the fetch, and the handler resumes   *)
(* with the outcome and returns its NextResponse.                          *)
(***************************************************************************)
\* the fetch a handler sends to `${backendUrl}${path}${id}`
Fetch(method, path, id, authorization, body) ==
    [kind |-> "request", method |-> method, path |-> path, id |-> id,
     authorization |-> authorization, body |-> body]

\* an incoming request: request.headers.get('Authorization') (null when the
\* header is absent), the text of its body as request.json() parses it,
\* and params.id
Incoming(authorization, body, id) ==
    [kind |-> "request", authorization |-> authorization, body |-> body,
     id |-> id]

ErrorOnly(error) == Obj([error |-> error])

InternalServerError == Response(500, ErrorOnly(Str("Internal server error")))

\* a handler that never guards the fetch
UnauthorizedNever(authHeader) == FALSE

\* !authHeader
Unauthorized(authHeader) == ~ToBoolean(authHeader)

\* errorData.detail || errorData.error || fallback, after JSON.parse of
\* the backend's error text; a text that does not parse, or parses to
\* null, leaves the fallback
ErrorDetail(errorText, fallback) ==
    IF errorText = InvalidJson \/ Nullish(errorText)
    THEN Str(fallback)
    ELSE OrElse(Get(errorText, "detail"),
                OrElse(Get(errorText, "error"), Str(fallback)))

\* what GET /api/decisions and the handlers of /api/decisions/[id] return
\* once their fetch has settled
ForwardedAnswer(outcome, fallback) ==
    IF outcome.kind = "error" THEN InternalServerError
    ELSE IF ~Ok(outcome)
    THEN Response(outcome.status, ErrorOnly(ErrorDetail(outcome.body, fallback)))
    ELSE IF outcome.body = InvalidJson THEN InternalServerError
    ELSE Response(200, JsonRoundTrip(outcome.body))

\* the body the first POST of save-decision/route.ts sends (lines 14-18)
SaveBodyWithUserId(body) ==
    JsonRoundTrip(ObjLit(
        [decision_input |-> OrElse(Get(body, "decision_input"), Get(body, "decision")),
         analysis_result |-> OrElse(Get(body, "analysis_result"), Get(body, "result")),
         user_id |-> Str("demo-user")]))

\* JSON.stringify({decision_input: decisionInput, analysis_result:
\* analysisResult}) (save-decision/route.ts lines 69-70 and 80-84)
SaveBody(body) ==
    JsonRoundTrip(ObjLit(
        [decision_input |-> OrElse(Get(body, "decision_input"), Get(body, "decision")),
         analysis_result |-> OrElse(Get(body, "analysis_result"), Get(body, "result"))]))

unchangedButRoutes ==
    UNCHANGED <<normalizerVars, estimatorVars, validatorVars, pageVars,
                historyVars, dialogVars, authVars>>

\* no statement of the handler has run yet
Dispatched(name) ==
    handler = name /\ outgoing = NoMessage /\ answered = NoMessage

\* the handler's fetch has settled and the handler has not returned yet
Resumable(name) ==
    handler = name /\ fetched # NoMessage /\ answered = NoMessage

\* POST /api/save-decision down to its fetch (lines 39-85 and the catch
\* block, lines 125-139)
savePOST ==
    /\ Dispatched("savePOST")
    /\ LET body == incoming.body
           authHeader == incoming.authorization
           returns(response) == answered' = response /\ UNCHANGED outgoing
       IN  IF body = InvalidJson
           THEN returns(Response(400, ErrorOnly(Str("Invalid JSON in request body"))))
           ELSE IF Unauthorized(authHeader)
           THEN returns(Response(401,
                    ErrorOnly(Str("Unauthorized - Missing Authorization header"))))
           ELSE IF Nullish(body)
           THEN returns(InternalServerError)
           ELSE IF ~ToBoolean(Get(body, "decision_input"))
                   /\ ~ToBoolean(Get(body, "decision"))
           THEN returns(Response(400,
                    ErrorOnly(Str("Missing required field: decision_input"))))
           ELSE IF ~ToBoolean(Get(body, "analysis_result"))
                   /\ ~ToBoolean(Get(body, "result"))
           THEN returns(Response(400,
                    ErrorOnly(Str("Missing required field: analysis_result"))))
           ELSE /\ outgoing' = Fetch("POST", "/save-decision", "", authHeader,
                                     SaveBody(body))
                /\ UNCHANGED answered
    /\ UNCHANGED <<handler, incoming, fetched>>
    /\ unchangedButRoutes

\* the generic message by status (lines 102-110)
SaveFailure(status) ==
    CASE status = 401 -> Str("Unauthorized - Please sign in again")
      [] status = 403 ->
            Str("Forbidden - You do not have permission to save this decision")
      [] status = 422 -> Str("Invalid decision data format")
      [] OTHER -> Str("Failed to save decision")

\* POST /api/save-decision from the settled fetch on (lines 87-139)
savePOSTResumes ==
    /\ Resumable("savePOST")
    /\ answered' =
         IF fetched.kind = "error" THEN InternalServerError
         ELSE IF ~Ok(fetched)
         THEN IF fetched.body = InvalidJson \/ Nullish(fetched.body)
              THEN Response(fetched.status, ErrorOnly(SaveFailure(fetched.status)))
              ELSE Response(fetched.status,
                       ErrorOnly(ErrorDetail(fetched.body, "Failed to save decision")))
         ELSE IF fetched.body = InvalidJson
         THEN Response(400, ErrorOnly(Str("Invalid JSON in request body")))
         ELSE Response(201, JsonRoundTrip(fetched.body))
    /\ UNCHANGED <<handler, incoming, outgoing, fetched>>
    /\ unchangedButRoutes

\* a handler that reads the Authorization header and fetches with it
\* (decisions/route.ts lines 57-75; decisions/[id]/route.ts lines 10-31
\* and 70-91)
GuardedFetch(method, path, id) ==
    LET authHeader == incoming.authorization
    IN  IF Unauthorized(authHeader)
        THEN /\ answered' = Response(401, ErrorOnly(
                     IF path = "/decisions" /\ id = ""
                     THEN Str("Unauthorized - Please sign in to view decisions")
                     ELSE Str("Unauthorized: Missing Authorization header")))
             /\ UNCHANGED outgoing
        ELSE /\ outgoing' = Fetch(method, path, id, authHeader, Undef)
             /\ UNCHANGED answered

\* GET /api/decisions
decisionsGET ==
    /\ Dispatched("decisionsGET")
    /\ GuardedFetch("GET", "/decisions", "")
    /\ UNCHANGED <<handler, incoming, fetched>>
    /\ unchangedButRoutes

decisionsGETResumes ==
    /\ Resumable("decisionsGET")
    /\ answered' = ForwardedAnswer(fetched, "Failed to fetch decisions")
    /\ UNCHANGED <<handler, incoming, outgoing, fetched>>
    /\ unchangedButRoutes

\* DELETE /api/decisions/[id]
decisionDELETE ==
    /\ Dispatched("decisionDELETE")
    /\ GuardedFetch("DELETE", "/decisions/", incoming.id)
    /\ UNCHANGED <<handler, incoming, fetched>>
    /\ unchangedButRoutes

decisionDELETEResumes ==
    /\ Resumable("decisionDELETE")
    /\ answered' = ForwardedAnswer(fetched, "Failed to delete decision")
    /\ UNCHANGED <<handler, incoming, outgoing, fetched>>
    /\ unchangedButRoutes

\* GET /api/decisions/[id]
decisionGET ==
    /\ Dispatched("decisionGET")
    /\ GuardedFetch("GET", "/decisions/", incoming.id)
    /\ UNCHANGED <<handler, incoming, fetched>>
    /\ unchangedButRoutes

decisionGETResumes ==
    /\ Resumable("decisionGET")
    /\ answered' = ForwardedAnswer(fetched, "Failed to fetch decision")
    /\ UNCHANGED <<handler, incoming, outgoing, fetched>>
    /\ unchangedButRoutes

\* what the backend answers a handler with, or the failure of the fetch
StoredDecision == Obj([id |-> Str("d1")])

PersistenceOutcomes ==
    {Response(200, StoredDecision), Response(200, InvalidJson),
     FetchFailure("TypeError")}
        \cup {Response(status, errorText) :
                 status \in {401, 404},
                 errorText \in {Obj([detail |-> Str("denied")]),
                                Obj([error |-> Str("failed")]),
                                Null, InvalidJson}}

\* the backend, or the network, settles the handler's fetch
fetchSettles ==
    /\ outgoing # NoMessage
    /\ fetched = NoMessage
    /\ fetched' \in PersistenceOutcomes
    /\ UNCHANGED <<handler, incoming, outgoing, answered>>
    /\ unchangedButRoutes

\* The requests the handlers are invoked with.
AuthorizationValues == {Null, Str(""), Str("Bearer t1"), Str("Bearer t2")}

NewDecision == Obj([title |-> Str("new")])
OldDecision == Obj([title |-> Str("old")])
NewResult == Obj([summary |-> Str("new")])
OldResult == Obj([summary |-> Str("old")])

SaveBodies ==
    {ObjLit([decision_input |-> di, decision |-> d, analysis_result |-> ar,
             result |-> r, user_id |-> uid]) :
        di \in {Undef, Str(""), NewDecision}, d \in {Undef, OldDecision},
        ar \in {Undef, Num(0), NewResult}, r \in {Undef, OldResult},
        uid \in {Undef, Str("mallory")}}
        \cup {Null, Str("x"), InvalidJson}

DecisionIds == {"d1", "d2"}

InitRoutes ==
    /\ handler \in {"savePOST", "decisionsGET", "decisionDELETE", "decisionGET"}
    /\ incoming \in
         CASE handler = "savePOST" ->
                 {Incoming(a, b, "") : a \in AuthorizationValues, b \in SaveBodies}
           [] handler = "decisionsGET" ->
                 {Incoming(a, Undef, "") : a \in AuthorizationValues}
           [] OTHER ->
                 {Incoming(a, Undef, id) : a \in AuthorizationValues, id \in DecisionIds}
    /\ outgoing = NoMessage
    /\ fetched = NoMessage
    /\ answered = NoMessage
    /\ NormalizerIdle
    /\ EstimatorIdle
    /\ ValidatorIdle
    /\ PageIdle
    /\ HistoryIdle
    /\ DialogIdle
    /\ AuthIdle

NextRoutes ==
    \/ savePOST \/ savePOSTResumes
    \/ decisionsGET \/ decisionsGETResumes
    \/ decisionDELETE \/ decisionDELETEResumes
    \/ decisionGET \/ decisionGETResumes
    \/ fetchSettles

SpecRoutes == InitRoutes /\ [][NextRoutes]_vars

(***************************************************************************)
(* HistoryPage (app/page.tsx lines 208-421): the list of saved decisions   *)
(* and deleteDecision.  Each call of deleteDecision is an async function   *)
(* of the render it was created in: it keeps that render's decisions, and  *)
(* runs from its call to its first await, then from the settled request to *)
(* its end.                                                                *)
(***************************************************************************)
SavedDecision(id) == Obj([id |-> Str(id)])

SavedIds == {"d1", "d2", "d3"}

\* what GET /api/decisions answers with
SavedDecisions == Arr(<<SavedDecision("d1"), SavedDecision("d2"), SavedDecision("d3")>>)

NoCall == [state |-> "none"]

\* some DELETE request for the decision of this call has returned OK
Succeeded(call) == call.state # "none" /\ call.succeeded

\* decisions.filter(d => d.id !== decisionId)
WithoutDecision(list, decisionId) ==
    Arr(SelectSeq(list.a, LAMBDA d : Get(d, "id") # Str(decisionId)))

Displayed(list, decisionId) ==
    \E i \in 1..Len(list.a) : Get(list.a[i], "id") = Str(decisionId)

InFlight == {id \in SavedIds : deletions[id].state = "started"}

unchangedButHistory ==
    UNCHANGED <<normalizerVars, estimatorVars, validatorVars, pageVars,
                routeVars, dialogVars, authVars>>

\* fetchDecisions, started by the effect on mount (lines 215-242), from
\* the settled request to its end
fetchDecisions ==
    /\ loading
    /\ \E ok \in BOOLEAN :
           IF ok
           THEN decisions' = SavedDecisions /\ UNCHANGED historyToast
           ELSE /\ historyToast' = Str("Failed to load decision history")
                /\ UNCHANGED decisions
    /\ loading' = FALSE
    /\ UNCHANGED <<deletingId, deletions, fetching, persisted>>
    /\ unchangedButHistory

\* deleteDecision(decisionId) down to its first await (lines 244-247),
\* called from the button of a displayed decision, which is disabled while
\* deletingId is that decision's id (lines 386-387)
deleteDecision ==
    /\ ~loading
    /\ \E decisionId \in SavedIds :
           /\ Displayed(decisions, decisionId)
           /\ deletingId # Str(decisionId)
           /\ decisionId \notin InFlight
           /\ deletingId' = Str(decisionId)
           /\ deletions' = [deletions EXCEPT ![decisionId] =
                  [state |-> "started", decisions |-> decisions,
                   during |-> InFlight,
                   succeeded |-> Succeeded(deletions[decisionId])]]
    /\ UNCHANGED <<decisions, loading, historyToast, fetching, persisted>>
    /\ unchangedButHistory

\* how the request of a call settles: getAuthHeaders() throws, the fetch
\* rejects, or the route answers with an OK or a non-OK status
DeleteOutcomes == {"no token", "rejected", "not ok", "ok"}

\* deleteDecision from the settled request to its end (lines 248-265)
deleteDecisionResumes ==
    /\ \E decisionId \in InFlight, outcome \in DeleteOutcomes :
           LET call == deletions[decisionId]
           IN  /\ IF outcome = "ok"
                  THEN /\ historyToast' = Str("Decision deleted successfully")
                       /\ decisions' = WithoutDecision(call.decisions, decisionId)
                  ELSE /\ historyToast' = Str("Failed to delete decision")
                       /\ UNCHANGED decisions
               /\ deletingId' = Null
               /\ deletions' = [deletions EXCEPT ![decisionId] =
                      [state |-> "completed", ok |-> outcome = "ok",
                       during |-> call.during,
                       succeeded |-> call.succeeded \/ outcome = "ok"]]
    /\ UNCHANGED <<loading, fetching, persisted>>
    /\ unchangedButHistory

InitHistory ==
    /\ decisions = Arr(<<>>)
    /\ loading = TRUE
    /\ deletingId = Null
    /\ deletions = [id \in SavedIds |-> NoCall]
    /\ historyToast = Null
    /\ fetching = 0
    /\ persisted = {}
    /\ NormalizerIdle
    /\ EstimatorIdle
    /\ ValidatorIdle
    /\ PageIdle
    /\ RoutesIdle
    /\ DialogIdle
    /\ AuthIdle

NextHistory == fetchDecisions \/ deleteDecision \/ deleteDecisionResumes

SpecHistory == InitHistory /\ [][NextHistory]_vars

(***************************************************************************)
(* DecisionHistory (components/decision-history.tsx): the list it fetches  *)
(* on mount and handleDelete, which removes a decision from the list       *)
(* before it sends the DELETE request.  The backend holds the decisions    *)
(* and answers a fetch of the list with those it holds at that moment.     *)
(* Every request settles.                                                  *)
(***************************************************************************)
MaxFetches == 2     \* calls of fetchDecisions under way at a time

\* the body of an OK answer to GET /api/decisions
StoredDecisions ==
    Arr(SelectSeq(SavedDecisions.a, LAMBDA d : Get(d, "id").s \in persisted))

\* how a request settles
RequestOutcomes == {"rejected", "not ok", "ok"}

\* fetchDecisions from its settled request to its end (lines 26-36)
fetchDecisionsResumes ==
    /\ fetching > 0
    /\ \E outcome \in RequestOutcomes :
           IF outcome = "ok"
           THEN decisions' = StoredDecisions
           ELSE UNCHANGED decisions
    /\ loading' = FALSE
    /\ fetching' = fetching - 1
    /\ UNCHANGED <<deletingId, deletions, historyToast, persisted>>
    /\ unchangedButHistory

\* handleDelete(decisionId) down to its await (lines 49-59), called from
\* the Delete button of a displayed decision (line 141)
handleDelete ==
    /\ ~loading
    /\ \E decisionId \in SavedIds :
           /\ Displayed(decisions, decisionId)
           /\ decisionId \notin InFlight
           /\ decisions' = WithoutDecision(decisions, decisionId)
           /\ deletions' = [deletions EXCEPT ![decisionId] = [state |-> "started"]]
    /\ UNCHANGED <<loading, deletingId, historyToast, fetching, persisted>>
    /\ unchangedButHistory

\* the DELETE request settles and handleDelete runs to its end (lines
\* 56-65): only a rejected fetch reaches the catch block, which calls
\* fetchDecisions
handleDeleteResumes ==
    /\ \E decisionId \in InFlight, outcome \in RequestOutcomes :
           /\ deletions' = [deletions EXCEPT ![decisionId] =
                  [state |-> "completed", ok |-> outcome = "ok"]]
           /\ IF outcome = "rejected"
              THEN fetching < MaxFetches /\ fetching' = fetching + 1
              ELSE UNCHANGED fetching
           /\ IF outcome = "ok"
              THEN persisted' = persisted \ {decisionId}
              ELSE UNCHANGED persisted
    /\ UNCHANGED <<decisions, loading, deletingId, historyToast>>
    /\ unchangedButHistory

InitDecisionHistory ==
    /\ decisions = Arr(<<>>)
    /\ loading = TRUE
    /\ deletingId = Null
    /\ deletions = [id \in SavedIds |-> NoCall]
    /\ historyToast = Null
    /\ fetching = 1
    /\ persisted = SavedIds
    /\ NormalizerIdle
    /\ EstimatorIdle
    /\ ValidatorIdle
    /\ PageIdle
    /\ RoutesIdle
    /\ DialogIdle
    /\ AuthIdle

NextDecisionHistory ==
    fetchDecisionsResumes \/ handleDelete \/ handleDeleteResumes

SpecDecisionHistory ==
    /\ InitDecisionHistory
    /\ [][NextDecisionHistory]_vars
    /\ WF_vars(fetchDecisionsResumes)
    /\ WF_vars(handleDeleteResumes)

\* ---------------------------------------------------------------------
\* ConfirmationDialog (components/ui/confirmation-dialog.tsx).  The
\* parent holds open and loading and passes onOpenChange and onConfirm;
\* dialogLog records what each call of handleCancel and each completed
\* call of handleConfirm did.
\* ---------------------------------------------------------------------

MaxDialogCalls == 4

unchangedButDialog ==
    UNCHANGED <<normalizerVars, estimatorVars, validatorVars, pageVars,
                routeVars, historyVars, authVars>>

\* disabled={isProcessing || loading} of the X, Cancel and Confirm buttons
ButtonsDisabled == isProcessing \/ loadingProp

CancelOrigins == {"backdrop", "x", "cancel"}

\* what a call leaves in dialogLog
Logged(call, closed) == [call |-> call, closed |-> closed]

\* handleCancel, called by a click on the backdrop, or on the X or Cancel
\* button when it is enabled
handleCancel ==
    /\ open
    /\ Len(dialogLog) < MaxDialogCalls
    /\ \E origin \in CancelOrigins :
          /\ origin # "backdrop" => ~ButtonsDisabled
          /\ IF ~isProcessing /\ ~loadingProp
                THEN /\ open' = FALSE
                     /\ dialogLog' = Append(dialogLog, Logged(origin, TRUE))
                ELSE /\ open' = open
                     /\ dialogLog' = Append(dialogLog, Logged(origin, FALSE))
    /\ UNCHANGED <<loadingProp, isProcessing, confirming>>
    /\ unchangedButDialog

\* handleConfirm down to `await onConfirm()`, called by a click on the
\* enabled Confirm button
handleConfirm ==
    /\ open
    /\ ~ButtonsDisabled
    /\ ~confirming
    /\ Len(dialogLog) < MaxDialogCalls
    /\ isProcessing' = TRUE
    /\ confirming' = TRUE
    /\ UNCHANGED <<open, loadingProp, dialogLog>>
    /\ unchangedButDialog

ConfirmOutcomes == {"returned", "threw"}

\* handleConfirm without its finally block
handleConfirmResumesNoFinally ==
    /\ confirming
    /\ \E outcome \in ConfirmOutcomes :
          /\ open' = IF outcome = "returned" THEN FALSE ELSE open
          /\ isProcessing' = IF outcome = "returned" THEN FALSE ELSE isProcessing
          /\ dialogLog' = Append(dialogLog, Logged(outcome, outcome = "returned"))
    /\ confirming' = FALSE
    /\ UNCHANGED loadingProp
    /\ unchangedButDialog

\* handleConfirm from the settled onConfirm() to its end
handleConfirmResumes ==
    /\ confirming
    /\ \E outcome \in ConfirmOutcomes :
          /\ open' = IF outcome = "returned" THEN FALSE ELSE open
          /\ dialogLog' = Append(dialogLog, Logged(outcome, outcome = "returned"))
    /\ isProcessing' = FALSE
    /\ confirming' = FALSE
    /\ UNCHANGED loadingProp
    /\ unchangedButDialog

\* the parent opens the dialog
parentOpens ==
    /\ ~open
    /\ ~confirming
    /\ open' = TRUE
    /\ UNCHANGED <<loadingProp, isProcessing, confirming, dialogLog>>
    /\ unchangedButDialog

\* the parent changes the loading prop
parentSetsLoading ==
    /\ loadingProp' = ~loadingProp
    /\ UNCHANGED <<open, isProcessing, confirming, dialogLog>>
    /\ unchangedButDialog

InitDialog ==
    /\ open \in BOOLEAN
    /\ loadingProp \in BOOLEAN
    /\ isProcessing = FALSE
    /\ confirming = FALSE
    /\ dialogLog = <<>>
    /\ NormalizerIdle
    /\ EstimatorIdle
    /\ ValidatorIdle
    /\ PageIdle
    /\ RoutesIdle
    /\ HistoryIdle
    /\ AuthIdle

NextDialog ==
    \/ handleCancel
    \/ handleConfirm
    \/ handleConfirmResumes
    \/ parentOpens
    \/ parentSetsLoading

SpecDialog ==
    /\ InitDialog
    /\ [][NextDialog]_vars
    /\ WF_vars(handleConfirmResumes)

\* ---------------------------------------------------------------------
\* AuthProvider (contexts/auth-context.tsx).  The effect on mount starts
\* initializeAuth and subscribes to the auth state changes; user is the
\* provider's user state and authLoading its loading state.
\*   lookup = "started"   getCurrentUser() has not read the session yet
\*   lookup = "read"      it has, and its promise has not resolved
\*   lookup = "resolved"  initializeAuth has run to its end
\* ---------------------------------------------------------------------

MaxAuthEvents == 3

OtherUser == Obj([id |-> Str("u2")])
SessionUsers == {Null, SignedInUser, OtherUser}

unchangedButAuth ==
    UNCHANGED <<step, formData, isLoading, currentDecision, analysisResult,
                toastShown, pc, lastCall, apiRequest, apiResponse,
                backendRequest, backendResponse, normalizerVars,
                estimatorVars, validatorVars, routeVars, historyVars,
                dialogVars>>

\* supabase.auth.getUser() inside getCurrentUser (supabase-client.ts lines
\* 79-87): the user of the session of that moment, or null when the
\* request fails (getCurrentUser catches and returns null)
getCurrentUser ==
    /\ lookup = "started"
    /\ looked' \in {session, Null}
    /\ lookup' = "read"
    /\ UNCHANGED <<user, authLoading, session, authEvents>>
    /\ unchangedButAuth

\* initializeAuth from the resolved getCurrentUser() to its end (lines
\* 24-31)
initializeAuth ==
    /\ lookup = "read"
    /\ user' = looked
    /\ authLoading' = FALSE
    /\ lookup' = "resolved"
    /\ UNCHANGED <<session, looked, authEvents>>
    /\ unchangedButAuth

\* the session changes (sign in, sign out, token refresh) and the client
\* calls the subscribed callback with it (lines 36-41)
onAuthStateChange ==
    /\ Len(authEvents) < MaxAuthEvents
    /\ \E sessionUser \in SessionUsers :
          /\ session' = sessionUser
          /\ user' = sessionUser          \* session?.user ?? null
          /\ authEvents' = Append(authEvents, sessionUser)
    /\ authLoading' = FALSE
    /\ UNCHANGED <<lookup, looked>>
    /\ unchangedButAuth

InitAuth ==
    /\ PageIdle
    /\ authLoading = TRUE
    /\ session \in SessionUsers
    /\ lookup = "started"
    /\ looked = Null
    /\ authEvents = <<>>
    /\ NormalizerIdle
    /\ EstimatorIdle
    /\ ValidatorIdle
    /\ RoutesIdle
    /\ HistoryIdle
    /\ DialogIdle

NextAuth == getCurrentUser \/ initializeAuth \/ onAuthStateChange

SpecAuth == InitAuth /\ [][NextAuth]_vars

(***************************************************************************)
(* Properties of validateAnalysisResult, checked under SpecNormalizer.     *)
(***************************************************************************)
\* the returned AnalysisResult's fields, once the call has returned
OutScores == Get(vaOutput.value, "scores").a
OutConfidence == Get(vaOutput.value, "confidence")
OutRecommended == Get(vaOutput.value, "recommended_option")

\* the elements of the payload's scores array that are objects, in order
SourceObjects(payload) ==
    LET src == Get(payload, "scores")
    IN  IF src.t = "array"
        THEN SelectSeq(src.a, LAMBDA e : e.t \in {"object", "array"})
        ELSE <<>>

\* x clamped into [0,100] when it is a number, d when it is anything else
\* or NaN
ClampedOr(x, d) ==
    IF x.t # "number" \/ x.k = "nan" THEN Num(d)
    ELSE IF x.k = "inf" THEN Num(100)
    ELSE IF x.k = "ninf" THEN Num(0)
    ELSE Num(IF x.n < 0 THEN 0 ELSE IF x.n > 100 THEN 100 ELSE x.n)

InRange0To100(x) == x.t = "number" /\ x.k = "fin" /\ 0 <= x.n /\ x.n <= 100

C2_RecommendedIsAScoredOption ==
    (vaInput.t = "object" /\ vaOutput.kind = "return") =>
        /\ \E i \in 1..Len(OutScores) : Get(OutScores[i], "option") = OutRecommended
        /\ Get(vaInput, "recommended_option").t # "string" =>
               OutRecommended = Get(OutScores[1], "option")

C4_OverallScoreClampedOr50 ==
    (vaInput.t = "object" /\ vaOutput.kind = "return") =>
        /\ \A i \in 1..Len(OutScores) :
               InRange0To100(Get(OutScores[i], "overall_score"))
        /\ LET objs == SourceObjects(vaInput)
           IN  Len(objs) = Len(OutScores) =>
                   \A i \in 1..Len(objs) :
                       Get(OutScores[i], "overall_score")
                           = ClampedOr(Get(objs[i], "overall_score"), 50)

\* C5 (as claimed): the returned confidence is a number in [0,100]: the
\* source confidence clamped when that is a number, exactly 70 when it is
\* missing, of the wrong type, or NaN.
C5_ConfidenceClampedOr70 ==
    (vaInput.t = "object" /\ vaOutput.kind = "return") =>
        /\ InRange0To100(OutConfidence)
        /\ OutConfidence = ClampedOr(Get(vaInput, "confidence"), 70)

\* what an entry built from the source element src must carry: its option
\* when that is a non-empty string, "Unknown Option" when it is missing or
\* empty, and its overall_score when that already lies in [0,100]
EntryFollows(entry, src) ==
    /\ ToBoolean(Get(src, "option")) /\ Get(src, "option").t = "string" =>
           Get(entry, "option") = Get(src, "option")
    /\ ~ToBoolean(Get(src, "option")) =>
           Get(entry, "option") = Str("Unknown Option")
    /\ InRange0To100(Get(src, "overall_score")) =>
           Get(entry, "overall_score") = Get(src, "overall_score")

\* C6: a payload without any object in a scores array yields exactly one
\* entry, "Default Option" with overall_score 50; otherwise the result has
\* one entry per object element, in source order, and nothing else.  The
\* empty payload {} yields the placeholder, confidence 70 and
\* recommended_option "Default Option".
C6_PlaceholderOrOneEntryPerObject ==
    (vaInput.t = "object" /\ vaOutput.kind = "return") =>
        LET objs == SourceObjects(vaInput)
        IN  /\ Len(objs) = 0 =>
                   /\ Len(OutScores) = 1
                   /\ Get(OutScores[1], "option") = Str("Default Option")
                   /\ Get(OutScores[1], "overall_score") = Num(50)
            /\ Len(objs) > 0 =>
                   /\ Len(OutScores) = Len(objs)
                   /\ \A i \in 1..Len(objs) : EntryFollows(OutScores[i], objs[i])
            /\ vaInput = Obj(<<>>) =>
                   /\ OutConfidence = Num(70)
                   /\ OutRecommended = Str("Default Option")

\* C6 witness: two object elements around a skipped one came out as two
\* entries in source order.
C6_Witness ==
    /\ vaOutput.kind = "return"
    /\ Get(vaInput, "scores").t = "array"
    /\ Len(SourceObjects(vaInput)) = 2
    /\ Get(OutScores[1], "option") = Str("A")
    /\ Get(OutScores[2], "option") = Str("B")

(***************************************************************************)
(* Properties of calculateConfidence, checked under SpecEstimator.         *)
(***************************************************************************)
IsFiniteNumber(v) == v.t = "number" /\ v.k = "fin"

AllFinite(a) == \A i \in 1..Len(a) : IsFiniteNumber(a[i])

\* The reference: entries clamped below at 0; 50 for fewer than two entries
\* or equal extremes; otherwise min(30 + ((max - min) / 100) * 70, 95)
\* rounded to the nearest integer (computed on tenths).
ReferenceConfidence(a) ==
    IF Len(a) < 2 THEN 50
    ELSE LET clamped == {IF a[i].n < 0 THEN 0 ELSE a[i].n : i \in 1..Len(a)}
             hi == CHOOSE x \in clamped : \A y \in clamped : y <= x
             lo == CHOOSE x \in clamped : \A y \in clamped : x <= y
             raw10 == 300 + 7 * (hi - lo)
             capped10 == IF raw10 > 950 THEN 950 ELSE raw10
         IN  IF hi = lo THEN 50
             ELSE CHOOSE m \in 0..100 : 10 * m - 5 <= capped10 /\ capped10 < 10 * m + 5

\* C7 (as claimed): for every argument calculateConfidence returns, without
\* throwing, exactly 50 or an integer in [30,95].
C7_AlwaysFiftyOrWithin30To95 ==
    ccOutput.kind # "pending" =>
        /\ ccOutput.kind = "return"
        /\ IsFiniteNumber(ccOutput.value)
        /\ ccOutput.value.n = 50
               \/ (30 <= ccOutput.value.n /\ ccOutput.value.n <= 95)

\* C8: on every list of finite numbers calculateConfidence equals the
\* reference; in particular [] -> 50, [70] -> 50, [50,50,50] -> 50,
\* [0,100] -> 95 and [40,60] -> 44.
C8_MatchesReferenceOnFiniteLists ==
    (ccInput.t = "array" /\ ccOutput.kind # "pending") =>
        /\ AllFinite(ccInput.a) =>
               ccOutput = Return(Num(ReferenceConfidence(ccInput.a)))
        /\ ccInput = Arr(<<>>) => ccOutput = Return(Num(50))
        /\ ccInput = Arr(<<Num(70)>>) => ccOutput = Return(Num(50))
        /\ ccInput = Arr(<<Num(50), Num(50), Num(50)>>) => ccOutput = Return(Num(50))
        /\ ccInput = Arr(<<Num(0), Num(100)>>) => ccOutput = Return(Num(95))
        /\ ccInput = Arr(<<Num(40), Num(60)>>) => ccOutput = Return(Num(44))

\* C8 witness: a list of finite numbers whose range gives a half (a range
\* of 5 gives 33.5) was estimated at 34.
C8_Witness ==
    /\ ccInput = Arr(<<Num(40), Num(45)>>)
    /\ ccOutput = Return(Num(34))

\* C9 (as claimed): on every array the result is the result on the same
\* array with the entries that are not finite numbers removed.
C9_IgnoresNonFiniteEntries ==
    (ccInput.t = "array" /\ ccOutput.kind # "pending") =>
        ccOutput = calculateConfidence(Arr(SelectSeq(ccInput.a, IsFiniteNumber)))

(***************************************************************************)
(* Properties of validateDecisionInput, checked under SpecValidator.       *)
(***************************************************************************)
IsString(v) == v.t = "string"

\* a string with a character that trim() keeps
NonBlank(v) == IsString(v) /\ \E i \in 1..Len(v.c) : ~IsWhitespace(v.c[i])

WellFormedPriority(p) ==
    /\ p.t = "object"
    /\ NonBlank(Get(p, "name"))
    /\ IsFiniteNumber(Get(p, "weight"))
    /\ MinWeight <= Get(p, "weight").n /\ Get(p, "weight").n <= MaxWeight
    /\ NonBlank(Get(p, "description"))

\* a Decision as the claim describes it: lengths of title and context in
\* range, 2 to 5 non-blank options, at least one well-formed priority
ValidDecision(d) ==
    /\ d.t = "object"
    /\ IsString(Get(d, "title"))
    /\ 1 <= Len(Get(d, "title").c) /\ Len(Get(d, "title").c) <= TitleMaxLength
    /\ IsString(Get(d, "context"))
    /\ ContextMinLength <= Len(Get(d, "context").c)
    /\ Len(Get(d, "context").c) <= ContextMaxLength
    /\ Get(d, "options").t = "array"
    /\ MinOptions <= Len(Get(d, "options").a)
    /\ Len(Get(d, "options").a) <= MaxOptions
    /\ \A i \in 1..Len(Get(d, "options").a) : NonBlank(Get(d, "options").a[i])
    /\ Get(d, "priorities").t = "array"
    /\ Len(Get(d, "priorities").a) >= 1
    /\ \A i \in 1..Len(Get(d, "priorities").a) :
           WellFormedPriority(Get(d, "priorities").a[i])

\* C10 (as claimed): every valid Decision gets an empty error list.
C10_ValidDecisionHasNoErrors ==
    (ValidDecision(vdInput) /\ vdOutput.kind # "pending") =>
        vdOutput = Return(<<>>)

\* C10 (amended): every valid Decision whose title and context are not
\* blank after trimming gets an empty error list.
C10_ValidNonBlankDecisionHasNoErrors ==
    (/\ ValidDecision(vdInput)
     /\ NonBlank(Get(vdInput, "title"))
     /\ NonBlank(Get(vdInput, "context"))
     /\ vdOutput.kind # "pending") =>
        vdOutput = Return(<<>>)

\* C10 witness: a valid Decision whose context has exactly the minimum
\* length, one character of it a blank, was accepted.
C10_Witness ==
    /\ ValidDecision(vdInput)
    /\ NonBlank(Get(vdInput, "title"))
    /\ NonBlank(Get(vdInput, "context"))
    /\ Len(Get(vdInput, "context").c) = ContextMinLength
    /\ IsWhitespace(Get(vdInput, "context").c[1])
    /\ vdOutput = Return(<<>>)

\* the object holding only d's own value of key (d's other fields absent)
Only(d, key) ==
    IF Get(d, key) = Undef THEN Obj(<<>>)
    ELSE Obj([q \in {key} |-> Get(d, key)])

Range(f) == {f[i] : i \in DOMAIN f}

\* the options that are strings with a character trim() keeps
NonBlankOptionCount(d) ==
    IF Get(d, "options").t = "array"
    THEN Cardinality({i \in 1..Len(Get(d, "options").a) :
                         NonBlank(Get(d, "options").a[i])})
    ELSE 0

\* the rules of each field, as the data model states them
TitleOk(d) ==
    NonBlank(Get(d, "title")) /\ Len(Get(d, "title").c) <= TitleMaxLength

ContextOk(d) ==
    /\ NonBlank(Get(d, "context"))
    /\ ContextMinLength <= Len(Get(d, "context").c)
    /\ Len(Get(d, "context").c) <= ContextMaxLength

OptionsOk(d) ==
    MinOptions <= NonBlankOptionCount(d) /\ NonBlankOptionCount(d) <= MaxOptions

PrioritiesOk(d) ==
    /\ Get(d, "priorities").t = "array"
    /\ Len(Get(d, "priorities").a) >= 1
    /\ \A i \in 1..Len(Get(d, "priorities").a) :
           WellFormedPriority(Get(d, "priorities").a[i])

\* the number of fields of d that break their rule
DefectCount(d) ==
    (IF TitleOk(d) THEN 0 ELSE 1) + (IF ContextOk(d) THEN 0 ELSE 1)
        + (IF OptionsOk(d) THEN 0 ELSE 1) + (IF PrioritiesOk(d) THEN 0 ELSE 1)

\* C11 (as claimed): validateDecisionInput, as exported by either module,
\* never throws: every call returns a list of errors.
C11_NeverThrows ==
    /\ vdOutput.kind # "pending" => vdOutput.kind = "return"
    /\ vuOutput.kind # "pending" => vuOutput.kind = "return"

\* C12 (as claimed): whenever validateDecisionInput returns, the list is
\* the errors of the title, then of the context, then of the options, then
\* of the priorities, each being the errors the field gets when every other
\* field is absent; and a decision with k fields breaking their rule gets
\* at least k messages.
C12_ConcatenationOfIndependentFieldErrors ==
    vdOutput.kind = "return" =>
        /\ vdOutput.value =
               TitleErrors(Only(vdInput, "title")).value
                   \o ContextErrors(Only(vdInput, "context")).value
                   \o OptionsErrors(Only(vdInput, "options")).value
                   \o PrioritiesErrors(Only(vdInput, "priorities")).value
        /\ Len(vdOutput.value) >= DefectCount(vdInput)

\* C13: whenever validateDecisionInput returns, "At least 2 options are
\* required" is in the list exactly when fewer than 2 options are non-blank
\* after trimming (none when options is absent), and "Maximum 5 options
\* allowed" exactly when more than 5 are; ["a","b","","  "] gets neither.
C13_OptionsCountedAfterDiscardingBlanks ==
    vdOutput.kind = "return" =>
        /\ Fixed("At least 2 options are required") \in Range(vdOutput.value)
               <=> NonBlankOptionCount(vdInput) < MinOptions
        /\ Fixed("Maximum 5 options allowed") \in Range(vdOutput.value)
               <=> NonBlankOptionCount(vdInput) > MaxOptions
        /\ Get(vdInput, "options") =
               Arr(<<Text(<<"a">>), Text(<<"b">>), Text(<<>>), Text(<<" ", " ">>)>>)
           => /\ Fixed("At least 2 options are required") \notin Range(vdOutput.value)
              /\ Fixed("Maximum 5 options allowed") \notin Range(vdOutput.value)

\* C13 witness: five options and a blank sixth were accepted, without
\* either options error.
C13_Witness ==
    /\ Get(vdInput, "options").t = "array"
    /\ Len(Get(vdInput, "options").a) = MaxOptions + 1
    /\ NonBlankOptionCount(vdInput) = MaxOptions
    /\ vdOutput.kind = "return"
    /\ Fixed("At least 2 options are required") \notin Range(vdOutput.value)
    /\ Fixed("Maximum 5 options allowed") \notin Range(vdOutput.value)

\* a weight that is a number within [1,10]
WeightInRange(p) ==
    /\ IsFiniteNumber(Get(p, "weight"))
    /\ MinWeight <= Get(p, "weight").n
    /\ Get(p, "weight").n <= MaxWeight

\* how a message names the i-th priority (from 1): by its name, or by its
\* position when the name is missing, empty or whitespace-only
ExpectedLabel(p, i) ==
    IF NonBlank(Get(p, "name")) THEN Get(p, "name").c ELSE <<"#">> \o NatChars(i)

IsWeightMessage(m) == m.post = "\" must have a weight between 1-10"

IsDescriptionMessage(m) == m.post = "\" must have a description"

\* the positions, in order, of the entries of a that satisfy Test
Positions(a, Test(_)) == SelectSeq([i \in 1..Len(a) |-> i], LAMBDA i : Test(a[i]))

\* the priorities of d when they form a non-empty array, else no priority
PrioritiesOf(d) ==
    IF Get(d, "priorities").t = "array" THEN Get(d, "priorities").a ELSE <<>>

\* C14 (as claimed): whenever validateDecisionInput returns, its weight
\* errors are, in order, one for each priority whose weight is not a number
\* within [1,10], naming the priority by its name, or by #i when the name
\* is blank; a priority with a weight within [1,10] gets none.
C14_WeightErrorNamesPriorityOrIndex ==
    vdOutput.kind = "return" =>
        LET prios == PrioritiesOf(vdInput)
            bad == Positions(prios, LAMBDA p : ~WeightInRange(p))
        IN  SelectSeq(vdOutput.value, IsWeightMessage)
                = [j \in 1..Len(bad) |->
                       Message("Priority \"", ExpectedLabel(prios[bad[j]], bad[j]),
                               "\" must have a weight between 1-10")]

\* the priorities rule on one outcome: with no priority to check exactly
\* one message, "At least one priority is required", concerns the
\* priorities; otherwise there is one description error for each priority
\* whose description is missing or blank
DescriptionRule(decision, out) ==
    out.kind = "return" =>
        LET prios == PrioritiesOf(decision)
            blank == Positions(prios, LAMBDA p : ~NonBlank(Get(p, "description")))
        IN  /\ Len(prios) = 0 =>
                /\ Len(SelectSeq(out.value,
                       LAMBDA m : m = Fixed("At least one priority is required"))) = 1
                /\ \A i \in 1..Len(out.value) : out.value[i].pre \notin {"Priority ", "Priority \""}
            /\ Len(prios) > 0 =>
                Len(SelectSeq(out.value, IsDescriptionMessage)) = Len(blank)

\* C15 (as claimed): the priorities rule holds of the validateDecisionInput
\* of lib/data-transform.ts and of the one of lib/utils.ts.
C15_BothExportsReportBlankDescriptions ==
    /\ DescriptionRule(vdInput, vdOutput)
    /\ DescriptionRule(vdInput, vuOutput)

(***************************************************************************)
(* Properties of the two confidence values and of the recommendation,      *)
(* checked under SpecNormalizer.                                           *)
(***************************************************************************)
\* the overall scores of the returned result, in order
OutOverallScores ==
    [i \in 1..Len(OutScores) |-> Get(OutScores[i], "overall_score")]

\* C19: the confidence validateAnalysisResult returns is the one it returns
\* for the payload reduced to its confidence field, whatever the scores;
\* the confidence DecisionResults displays is calculateConfidence of the
\* result's overall scores, whatever the result's confidence field.
C19_TwoIndependentConfidences ==
    vaOutput.kind = "return" =>
        /\ OutConfidence =
               Get(validateAnalysisResult(Only(vaInput, "confidence")).value,
                   "confidence")
        /\ drOutput.kind # "pending" =>
               /\ drOutput = calculateConfidence(Arr(OutOverallScores))
               /\ \A c \in ConfidenceValues :
                      DisplayedConfidence(
                          Obj([vaOutput.value.o EXCEPT !["confidence"] = c]))
                          = drOutput

\* C19 witness: a payload with confidence 85 and the overall scores 72 and
\* 150 was normalized to confidence 85 and displayed with confidence 50.
C19_Witness ==
    /\ Get(vaInput, "confidence") = Num(85)
    /\ vaOutput.kind = "return"
    /\ OutOverallScores = <<Num(72), Num(100)>>
    /\ OutConfidence = Num(85)
    /\ drOutput = Return(Num(50))

\* entry i has the highest overall_score and is the first to have it
IsFirstArgMax(i) ==
    /\ \A j \in 1..Len(OutScores) :
           /\ ~IsNaN(OutOverallScores[j])
           /\ NumLe(OutOverallScores[j], OutOverallScores[i])
    /\ \A j \in 1..(i - 1) : OutOverallScores[j] # OutOverallScores[i]

\* C20 (as claimed): in every result returned for an object payload,
\* recommended_option is the option of the first entry with the highest
\* overall_score.
C20_RecommendedIsArgMax ==
    (vaInput.t = "object" /\ vaOutput.kind = "return") =>
        \E i \in 1..Len(OutScores) :
            IsFirstArgMax(i) /\ OutRecommended = Get(OutScores[i], "option")

(***************************************************************************)
(* Properties of the analysis request of Home, checked under SpecHome.     *)
(***************************************************************************)
\* stored is what validateAnalysisResult returns for body, as it is or as
\* it arrives after a passage through JSON
IsNormalizerOutputOf(stored, body) ==
    LET out == validateAnalysisResult(body)
    IN  /\ out.kind = "return"
        /\ stored \in {out.value, JsonRoundTrip(out.value)}

\* C16 (as claimed): whenever Home stores a new analysisResult, the value
\* is the output of validateAnalysisResult on the body the backend
\* answered with.
C16_StoredResultIsNormalizerOutput ==
    [][analysisResult' # analysisResult =>
           /\ backendResponse.kind = "response"
           /\ IsNormalizerOutputOf(analysisResult', backendResponse.body)]_vars

\* C17 (as claimed): every decision the route sends to the backend is one
\* for which validateDecisionInput returns an empty error list.
C17_OnlyValidDecisionsReachBackend ==
    backendRequest.kind = "request" =>
        validateDecisionInput(backendRequest.body) = Return(<<>>)

\* the backend answered with an OK status and a JSON body that is not an
\* object
MalformedAnswer(settled) ==
    /\ settled.kind = "response"
    /\ Ok(settled)
    /\ settled.body # InvalidJson
    /\ NotAnObject(settled.body)

\* C18 (as claimed): when the backend's answer is malformed, the request
\* ends with the failure toast shown and analysisResult left as it was,
\* and no value that is not an object is ever stored as analysisResult (the
\* value DecisionResults renders).
C18_MalformedAnswerShownAsFailure ==
    [][/\ (pc = "response" /\ pc' = "idle" /\ MalformedAnswer(backendResponse)) =>
              (toastShown' = FailureToast /\ analysisResult' = analysisResult)
       /\ (analysisResult' # Null => ~NotAnObject(analysisResult'))]_vars

(***************************************************************************)
(* Properties of the route handlers in front of the persistence backend,   *)
(* checked under SpecRoutes.                                               *)
(***************************************************************************)

\* C21: a handler fetches the backend only if the incoming request carries
\* an Authorization header, and the fetch carries that header value
\* unchanged; a request without the header (whose body, if any, parses) is
\* answered 401 and no fetch is sent.
C21_AuthorizationForwardedOr401 ==
    /\ outgoing # NoMessage =>
          /\ incoming.authorization # Null
          /\ outgoing.authorization = incoming.authorization
    /\ (incoming.authorization = Null /\ incoming.body # InvalidJson) =>
          /\ outgoing = NoMessage
          /\ answered # NoMessage => answered.status = 401

\* a DELETE with a header has been forwarded and answered
C21_Witness ==
    /\ handler = "decisionDELETE"
    /\ outgoing # NoMessage
    /\ outgoing.authorization = Str("Bearer t2")
    /\ answered # NoMessage

\* body has an own property named key
Present(body, key) == body.t = "object" /\ key \in DOMAIN body.o

\* the value the claim has forwarded for a field known under two names
PreferredField(body, name, legacyName) ==
    IF Present(body, name) THEN Get(body, name) ELSE Get(body, legacyName)

\* neither name of the decision, or neither name of the result, is present
FieldMissing(body) ==
    \/ ~Present(body, "decision_input") /\ ~Present(body, "decision")
    \/ ~Present(body, "analysis_result") /\ ~Present(body, "result")

\* C22: the authenticated save-decision POST forwards a body with exactly the
\* keys decision_input and analysis_result, each holding the value of the
\* field's first name if present and of its second name otherwise (so a
\* user_id of the client is never forwarded); when neither name of a field
\* is present it answers 400 and sends nothing to the backend.
C22_SaveForwardsExactlyTwoFields ==
    (/\ handler = "savePOST"
     /\ ~Unauthorized(incoming.authorization)
     /\ incoming.body # InvalidJson) =>
        LET body == incoming.body
        IN  /\ outgoing # NoMessage =>
                 outgoing.body =
                     Obj([decision_input |->
                              PreferredField(body, "decision_input", "decision"),
                          analysis_result |->
                              PreferredField(body, "analysis_result", "result")])
            /\ FieldMissing(body) =>
                 /\ outgoing = NoMessage
                 /\ answered # NoMessage => answered.status = 400

(***************************************************************************)
(* Properties of the route /api/analyze-decision, checked under            *)
(* SpecAnalyzeRoute.                                                       *)
(***************************************************************************)
UnavailableBody ==
    ErrorBody("Analysis service temporarily unavailable",
              "Please try again in a few moments")

\* the number of options a payload holds
SentOptionCount(payload) ==
    LET options == Get(payload, "options")
    IN  IF payload.t = "object" /\ options.t = "array" THEN Len(options.a) ELSE 0

\* the payload lacks one of the four fields, or holds fewer than 2 options
IncompletePayload(payload) ==
    \/ \E key \in {"title", "context", "options", "priorities"} :
           ~(payload.t = "object" /\ key \in DOMAIN payload.o)
    \/ SentOptionCount(payload) < 2

\* C23: the route answers with a success status only when the backend's
\* response was OK; a backend status s that is not OK is answered with s and
\* the fixed body; a timeout is answered 504, a connection TypeError 503,
\* any other exception 500; a payload that lacks title, context, options or
\* priorities, or holds fewer than 2 options, is answered 400 and no request
\* is sent to the backend.
C23_RouteAnswers ==
    LET payload == apiRequest.body
    IN  /\ (apiResponse # NoMessage /\ Ok(apiResponse)) =>
              backendResponse.kind = "response" /\ Ok(backendResponse)
        /\ (apiResponse # NoMessage /\ backendResponse.kind = "response"
                /\ ~Ok(backendResponse)) =>
              apiResponse = Response(backendResponse.status, UnavailableBody)
        /\ (apiResponse # NoMessage /\ backendResponse.kind = "error") =>
              apiResponse.status =
                  CASE backendResponse.name = "TimeoutError" -> 504
                    [] backendResponse.name = "TypeError" -> 503
                    [] OTHER -> 500
        /\ (apiResponse # NoMessage
                /\ backendResponse = Response(200, InvalidJson)) =>
              apiResponse.status = 500
        /\ (payload # InvalidJson /\ IncompletePayload(payload)) =>
              /\ backendRequest = NoMessage
              /\ apiResponse # NoMessage => apiResponse.status = 400

(***************************************************************************)
(* Properties of handleAnalyzeDecision from call to completion, checked    *)
(* under SpecAnalysis.                                                     *)
(***************************************************************************)

\* C24: a call of handleAnalyzeDecision that set isLoading to true
\* eventually sets it back to false, however the request ends;
\* analysisResult is assigned only when an OK response arrived, and then
\* the response's body; and a call with no signed-in user changes no state
\* of Home and sends no request.
C24_LoadingEndsAndResultOnlyOnOk ==
    /\ isLoading ~> ~isLoading
    /\ [][analysisResult' # analysisResult =>
              /\ pc = "response"
              /\ Ok(apiResponse)
              /\ analysisResult' = apiResponse.body]_vars
    /\ [][(~ToBoolean(user) /\ lastCall' # lastCall) =>
              UNCHANGED <<user, step, formData, isLoading, currentDecision,
                          analysisResult, toastShown, pc, apiRequest,
                          apiResponse, backendRequest, backendResponse>>]_vars

\* a call that started has failed and reset isLoading, and a later call
\* without a user has returned
C24_Witness ==
    /\ lastCall = "returned"
    /\ ~isLoading
    /\ toastShown = FailureToast
    /\ analysisResult = Null
    /\ apiRequest = NoMessage

(***************************************************************************)
(* Properties of HistoryPage, checked under SpecHistory.                   *)
(***************************************************************************)
\* the call for decisionId ends in this step
Completes(decisionId) ==
    deletions[decisionId].state = "started"
        /\ deletions'[decisionId].state = "completed"

DeletedOk(call) == call.state = "completed" /\ call.ok

\* the two calls were both under way at some moment
Overlapped(a, b, callA, callB) == a \in callB.during \/ b \in callA.during

\* C25: a decision leaves the displayed list only once a DELETE request
\* for it has returned OK, and a failed DELETE leaves the list
\* unchanged; and when the deletions of two different decisions were both
\* started before either completed and both succeeded, neither decision is
\* displayed once the second has completed, and deletingId is null.
C25_DeletedOnlyOnOkAndBothGone ==
    /\ [][\A id \in SavedIds :
              (Displayed(decisions, id) /\ ~Displayed(decisions', id)) =>
                  Succeeded(deletions'[id])]_vars
    /\ [][\A id \in SavedIds :
              (Completes(id) /\ ~deletions'[id].ok) => decisions' = decisions]_vars
    /\ [][\A a \in SavedIds : \A b \in SavedIds \ {a} :
              (/\ Completes(b)
               /\ DeletedOk(deletions'[a]) /\ DeletedOk(deletions'[b])
               /\ Overlapped(a, b, deletions'[a], deletions'[b])) =>
                  /\ ~Displayed(decisions', a)
                  /\ ~Displayed(decisions', b)
                  /\ deletingId' = Null]_vars

(***************************************************************************)
(* Properties of DecisionHistory, checked under SpecDecisionHistory.       *)
(***************************************************************************)
DeleteFailed(call) == call.state = "completed" /\ ~call.ok

\* C26: handleDelete removes the decision from the list before its DELETE
\* request completes; whenever the request does not succeed (the fetch
\* rejects or the response is not OK) the list is fetched again, and the
\* decision is eventually displayed again.
C26_OptimisticRemovalReverted ==
    /\ [][\A id \in SavedIds :
              (deletions[id].state # "started" /\ deletions'[id].state = "started")
                  => Displayed(decisions, id) /\ ~Displayed(decisions', id)]_vars
    /\ [][\A id \in SavedIds :
              (Completes(id) /\ DeleteFailed(deletions'[id]))
                  => fetching' = fetching + 1]_vars
    /\ \A id \in SavedIds :
           [](DeleteFailed(deletions[id]) => <>Displayed(decisions, id))

(***************************************************************************)
(* Properties of ConfirmationDialog, checked under SpecDialog.             *)
(***************************************************************************)

\* the entry a step adds to dialogLog
DialogCall == dialogLog'[Len(dialogLog')]

DialogCalled == Len(dialogLog') = Len(dialogLog) + 1

\* C27: a cancel request (backdrop, X button, Cancel button) closes the
\* dialog only when no confirm action is in progress and loading is false,
\* and leaves it as it is otherwise; handleConfirm closes the dialog when
\* onConfirm completed without throwing and leaves it open when onConfirm
\* threw; isProcessing is false whenever no confirm action is under way,
\* so it is false once the confirm action has completed either way.
C27_DialogClosesOnlyWhenAllowed ==
    /\ [][DialogCalled /\ DialogCall.call \in CancelOrigins
             => /\ (open /\ ~open') => (~confirming /\ ~isProcessing /\ ~loadingProp)
                /\ (confirming \/ loadingProp) => open' = open
                /\ DialogCall.closed = (open /\ ~open')]_vars
    /\ [][DialogCalled /\ DialogCall.call \in ConfirmOutcomes
             => /\ confirming /\ ~confirming'
                /\ DialogCall.call = "returned" => ~open'
                /\ DialogCall.call = "threw" => open' /\ open
                /\ ~isProcessing']_vars
    /\ [](~confirming => ~isProcessing)

\* the dialog has refused a backdrop click during a confirm action, stayed
\* open after onConfirm threw, and is processing a second confirm action
C27_Witness ==
    /\ \E i \in DOMAIN dialogLog :
          dialogLog[i] = Logged("backdrop", FALSE)
    /\ \E i \in DOMAIN dialogLog : dialogLog[i] = Logged("threw", FALSE)
    /\ open
    /\ isProcessing
    /\ confirming

(***************************************************************************)
(* Properties of DecisionForm, checked under SpecHome.                     *)
(***************************************************************************)

\* what C28 requires of the argument of onSubmit
WellFormedPayload(data) ==
    LET options == Get(data, "options")
        priorities == Get(data, "priorities")
    IN  /\ NonBlank(Get(data, "title"))
        /\ options.t = "array"
        /\ Len(options.a) \in 2..5
        /\ \A i \in 1..Len(options.a) : NonBlank(options.a[i])
        /\ priorities.t = "array"
        /\ \A i \in 1..Len(priorities.a) :
              WeightInRange(priorities.a[i])

LatestEventUser == authEvents[Len(authEvents)]

\* C29: once initializeAuth has resolved, and with every delivered auth
\* state change handled, loading is false and user is the session user of
\* the most recent auth state change, whatever the order in which the
\* initial lookup and the callbacks ran.
C29_UserIsLatestEventUser ==
    (lookup = "resolved" /\ authEvents # <<>>)
        => (authLoading = FALSE /\ user = LatestEventUser)

(***************************************************************************)
(* Idempotence of validateAnalysisResult, checked under SpecNormalizer.    *)
(***************************************************************************)

\* C30: validateAnalysisResult is idempotent on object inputs: applied to
\* the result it returned for an object, it returns a result equal to that
\* result field for field.  (The argument of a call is never written:
\* vaInput keeps its value in every step.)
C30_NormalizerIdempotent ==
    vaAgain # Pending => vaAgain = vaOutput

====
